---- MODULE Spec2Model ----
(***************************************************************************)
(* A model of the archive browser: the IndexedDB-backed ArchiveCache, the  *)
(* App component's ingestion handlers (initializeApp, processFile,         *)
(* clearArchive, handleFileClick) and the directory tree they build.       *)
(*                                                                         *)
(* Strings that the code takes apart (paths, names) are sequences of       *)
(* one-character strings; byte arrays are sequences of numbers.            *)
(***************************************************************************)
EXTENDS Integers, Sequences, FiniteSets, TLC

VARIABLES
    store,            \* IndexedDB object store 'archives': key -> CachedArchive
    lastArchiveKey,   \* localStorage item "lastArchiveKey" (Null when absent)
    db,               \* ArchiveCache.db: "null" or "open"
    clock,            \* Date.now(), as a logical clock
    hasInitialized,   \* hasInitialized.current
    initPc,           \* position of initializeApp
    initKey,          \* initializeApp's local lastArchiveKey
    files,            \* React state: files
    directoryTree,    \* React state: directoryTree
    content,          \* React state: content
    currentView,      \* React state: currentView
    selectedFilePath, \* React state: selectedFilePath
    isLoading,        \* React state: isLoading
    focusedFileIndex, \* React state: focusedFileIndex
    expandedDirs,     \* React state: expandedDirs
    proc,             \* the invocations of processFile, one record per slot
    pendingReads,     \* invocations of handleFileClick awaiting arrayBuffer()
    unhandled,        \* history: the handlers whose promise rejected with nothing to catch it
    uploadSeq,        \* history: number of processFile invocations so far
    reloads,          \* history: number of page reloads so far
    ingested,         \* history: the files whose ingestion was applied
    cacheOutcome,     \* how the last direct call of an ArchiveCache method ended
    lastSaved,        \* history: key -> the files last saved under it
    helperCall,       \* the last call of a function of helpers.ts: its arguments and result
    viewer            \* VirtualizedTextViewer: its content prop and its scroll element

vars == <<store, lastArchiveKey, db, clock, hasInitialized, initPc, initKey,
          files, directoryTree, content, currentView, selectedFilePath,
          isLoading, focusedFileIndex, expandedDirs, proc, pendingReads, unhandled,
          uploadSeq, reloads, ingested, cacheOutcome, lastSaved, helperCall,
          viewer>>

-----------------------------------------------------------------------------
(* Bounds of the model *)

MaxUploads == 2
MaxReloads == 1
MaxPendingReads == 1
MaxEntries == 2
MaxSaves == 3

(* processFile invocations that may be in flight together *)
Procs == 1..2

-----------------------------------------------------------------------------
(* Strings *)

Null == "null"
EmptyString == <<>>

P_data == <<"d", "a", "t", "a">>
P_data_dir == <<"d", "a", "t", "a", "/">>
P_data_a == <<"d", "a", "t", "a", "/", "a">>
P_r == <<"r">>
P_x_y == <<"x", "/", "y">>

(* String.prototype.split("/") : "" splits to [""], "a/" to ["a", ""] *)
RECURSIVE SplitFrom(_, _, _, _)
SplitFrom(s, i, cur, acc) ==
    IF i > Len(s) THEN Append(acc, cur)
    ELSE IF s[i] = "/" THEN SplitFrom(s, i + 1, <<>>, Append(acc, cur))
    ELSE SplitFrom(s, i + 1, Append(cur, s[i]), acc)

Split(s) == SplitFrom(s, 1, <<>>, <<>>)

(* currentPath ? `${currentPath}/${part}` : part *)
JoinPath(currentPath, part) ==
    IF currentPath # EmptyString THEN currentPath \o <<"/">> \o part ELSE part

(* The collation String.prototype.localeCompare uses: characters are ordered
   by their primary weight (punctuation, digits, then letters regardless of
   case); strings equal at the primary level are ordered by case, lower case
   first. *)
CollationOrder == <<"/", ".", "1", "a", "b", "d", "r", "t", "x", "y">>
UpperCase == {"A", "B"}
ToLower(c) == IF c = "A" THEN "a" ELSE IF c = "B" THEN "b" ELSE c

PrimaryWeight(c) ==
    LET l == ToLower(c)
    IN  IF \E i \in 1..Len(CollationOrder) : CollationOrder[i] = l
        THEN CHOOSE i \in 1..Len(CollationOrder) : CollationOrder[i] = l
        ELSE Len(CollationOrder) + 1

RECURSIVE ComparePrimary(_, _, _)
ComparePrimary(a, b, i) ==
    IF i > Len(a) /\ i > Len(b) THEN 0
    ELSE IF i > Len(a) THEN -1
    ELSE IF i > Len(b) THEN 1
    ELSE IF PrimaryWeight(a[i]) < PrimaryWeight(b[i]) THEN -1
    ELSE IF PrimaryWeight(a[i]) > PrimaryWeight(b[i]) THEN 1
    ELSE ComparePrimary(a, b, i + 1)

RECURSIVE CompareCase(_, _, _)
CompareCase(a, b, i) ==
    IF i > Len(a) \/ i > Len(b) THEN 0
    ELSE IF a[i] \notin UpperCase /\ b[i] \in UpperCase THEN -1
    ELSE IF a[i] \in UpperCase /\ b[i] \notin UpperCase THEN 1
    ELSE CompareCase(a, b, i + 1)

localeCompare(a, b) ==
    LET p == ComparePrimary(a, b, 1)
    IN  IF p # 0 THEN p ELSE CompareCase(a, b, 1)

-----------------------------------------------------------------------------
(* Byte content *)

BinaryPrefixLen == 1000

Min(a, b) == IF a < b THEN a ELSE b

(* a classification that looks at every byte of the buffer *)
isBinaryWholeBuffer(data) ==
    \E i \in 1..Len(data) :
        data[i] = 0 \/ data[i] < 7 \/ (data[i] > 13 /\ data[i] < 32)

isBinary(data) ==
    \E i \in 1..Min(Len(data), BinaryPrefixLen) :
        data[i] = 0 \/ data[i] < 7 \/ (data[i] > 13 /\ data[i] < 32)

(* new TextDecoder().decode(data), on single-byte input: an ASCII byte is its
   own code unit, any other byte decodes to U+FFFD *)
ReplacementChar == 65533

TextDecode(data) ==
    [i \in 1..Len(data) |-> IF data[i] < 128 THEN data[i] ELSE ReplacementChar]

(* The content state is a string: either decoded text, or the placeholder
   `Binary file: ${path}` *)
NoContent == [placeholderFor |-> EmptyString, text |-> <<>>]
BinaryPlaceholder(path) == [placeholderFor |-> path, text |-> <<>>]
TextContent(data) == [placeholderFor |-> EmptyString, text |-> TextDecode(data)]

-----------------------------------------------------------------------------
(* Containers.  A File has a name and bytes; what unzip makes of the bytes
   depends on the bytes alone.  Bytes 1 and 2 are well-formed archives, bytes 3
   is a malformed container on which unzip rejects. *)

Bytes == {1, 2, 3}
Malformed == {3}

ZipEntry(path, isDir, data) ==
    [path |-> path, isDirectory |-> isDir, size |-> Len(data), data |-> data]

(* The entries object of unzip(file), in Object.entries order *)
ZipEntries(bytes) ==
    IF bytes = 1 THEN
        << ZipEntry(P_r, FALSE, <<104, 10, 105>>),
           ZipEntry(P_data_dir, TRUE, <<>>),
           ZipEntry(P_data_a, FALSE, <<80, 75, 0>>) >>
    ELSE IF bytes = 2 THEN
        << ZipEntry(P_x_y, FALSE, <<121, 10>>),
           ZipEntry(P_r, FALSE, <<200>>) >>
    ELSE << >>

UploadFiles ==
    { [name |-> "x.zip", bytes |-> 1],
      [name |-> "y.zip", bytes |-> 1],
      [name |-> "x.zip", bytes |-> 2],
      [name |-> "bad.zip", bytes |-> 3] }

(* SHA-256 of the bytes, in hex: distinct modelled bytes have distinct digests *)
Sha256Hex(bytes) ==
    IF bytes = 1 THEN "6b86b2" ELSE IF bytes = 2 THEN "d4735e" ELSE "4e0740"

Keys == { Sha256Hex(b) : b \in Bytes }

(* a key made from the file's name instead of its bytes *)
generateKeyFromName(file) == file.name

(* ArchiveCache.generateKey(file) *)
generateKey(file) == Sha256Hex(file.bytes)

-----------------------------------------------------------------------------
(* Sequence helpers *)

(* the entries that are not directories, in order *)
RECURSIVE NonDirectories(_)
NonDirectories(entries) ==
    IF entries = <<>> THEN <<>>
    ELSE (IF ~Head(entries).isDirectory THEN <<Head(entries)>> ELSE <<>>)
         \o NonDirectories(Tail(entries))

(* Array.prototype.findIndex, 0-based, -1 when absent *)
FindIndexByPath(s, path) ==
    IF \E i \in 1..Len(s) : s[i].path = path
    THEN (CHOOSE i \in 1..Len(s) :
            s[i].path = path /\ \A j \in 1..(i - 1) : s[j].path # path) - 1
    ELSE -1

-----------------------------------------------------------------------------
(* FileEntry values.  entry is the object whose arrayBuffer() yields the
   bytes: an unzipit entry (read from the container on demand) or the wrapper
   around a cached Uint8Array (already resolved). *)

ZipFileEntry(e) ==
    [path |-> e.path, size |-> e.size,
     entry |-> [src |-> "zip", data |-> e.data, size |-> e.size, isDirectory |-> e.isDirectory]]

CachedFileEntry(cached) ==
    [path |-> cached.path, size |-> cached.size,
     entry |-> [src |-> "cache", data |-> cached.content, size |-> cached.size, isDirectory |-> FALSE]]

ToCache(e) == [path |-> e.path, content |-> e.data, size |-> e.size]

(* processFile, miss branch: the loop over Object.entries(entries) *)
FilesToCache(bytes) ==
    LET es == NonDirectories(ZipEntries(bytes))
    IN  [i \in 1..Len(es) |-> ToCache(es[i])]

UnzippedFileList(bytes) ==
    LET es == NonDirectories(ZipEntries(bytes))
    IN  [i \in 1..Len(es) |-> ZipFileEntry(es[i])]

(* a map that yields the entries in reverse order *)
CachedFileListReversed(cachedFiles) ==
    [i \in 1..Len(cachedFiles) |->
        CachedFileEntry(cachedFiles[Len(cachedFiles) + 1 - i])]

(* cachedFiles.map((cached) => ({ path, entry: {...}, size })) *)
CachedFileList(cachedFiles) ==
    [i \in 1..Len(cachedFiles) |-> CachedFileEntry(cachedFiles[i])]

-----------------------------------------------------------------------------
(* buildDirectoryTree.  The loop fills nodeMap (path -> node) and pushes each
   new node onto the children array it is currently pointing at; here a node of
   the map holds the paths of its children, and Nest makes the nested tree. *)

RootArray == [isRoot |-> TRUE, path |-> EmptyString]
ChildrenOf(path) == [isRoot |-> FALSE, path |-> path]

EmptyBuild == [root |-> <<>>, nodeMap |-> <<>>]

(* a lookup that never finds a node *)
HasNodeNever(st, path) == FALSE

(* a lookup that finds directories only *)
HasNodeDirectoriesOnly(st, path) ==
    path \in DOMAIN st.nodeMap /\ st.nodeMap[path].isDirectory

HasNode(st, path) == path \in DOMAIN st.nodeMap

(* nodeMap.set(currentPath, node); currentNodes.push(node) *)
PushNode(st, currentNodes, node) ==
    LET withNode == [x \in (DOMAIN st.nodeMap) \cup {node.path} |->
                        IF x = node.path THEN node ELSE st.nodeMap[x]]
    IN  IF currentNodes.isRoot
        THEN [root |-> Append(st.root, node.path), nodeMap |-> withNode]
        ELSE [root |-> st.root,
              nodeMap |-> [withNode EXCEPT ![currentNodes.path].children =
                                               Append(@, node.path)]]

(* the inner loop, from part i on *)
RECURSIVE BuildParts(_, _, _, _, _, _)
BuildParts(st, fileEntry, parts, i, currentPath, currentNodes) ==
    IF i > Len(parts) THEN st
    ELSE
        LET part == parts[i]
            isLast == (i = Len(parts))
            path == JoinPath(currentPath, part)
            node == [name |-> part, path |-> path, isDirectory |-> ~isLast,
                     children |-> <<>>,
                     fileEntry |-> IF isLast THEN <<fileEntry>> ELSE <<>>]
            st2 == IF HasNode(st, path) THEN st ELSE PushNode(st, currentNodes, node)
        IN  BuildParts(st2, fileEntry, parts, i + 1, path,
                       IF isLast THEN currentNodes ELSE ChildrenOf(path))

(* the outer loop, from file k on *)
RECURSIVE BuildFiles(_, _, _)
BuildFiles(st, fileList, k) ==
    IF k > Len(fileList) THEN st
    ELSE BuildFiles(
            BuildParts(st, fileList[k], Split(fileList[k].path), 1, EmptyString, RootArray),
            fileList, k + 1)

RECURSIVE Nest(_, _)
Nest(nodeMap, paths) ==
    IF paths = <<>> THEN <<>>
    ELSE LET n == nodeMap[Head(paths)]
         IN  <<[name |-> n.name, path |-> n.path, isDirectory |-> n.isDirectory,
                children |-> Nest(nodeMap, n.children), fileEntry |-> n.fileEntry]>>
             \o Nest(nodeMap, Tail(paths))

(* the comparator of sortNodes *)
CompareNodes(a, b) ==
    IF a.isDirectory /\ ~b.isDirectory THEN -1
    ELSE IF ~a.isDirectory /\ b.isDirectory THEN 1
    ELSE localeCompare(a.name, b.name)

(* Array.prototype.sort is stable: x goes after every element not greater *)
InsertNode(sorted, x) ==
    LET later == { j \in 1..Len(sorted) : CompareNodes(sorted[j], x) > 0 }
        at == IF later = {} THEN Len(sorted) + 1
              ELSE CHOOSE j \in later : \A k \in later : j <= k
    IN  SubSeq(sorted, 1, at - 1) \o <<x>> \o SubSeq(sorted, at, Len(sorted))

RECURSIVE StableSort(_)
StableSort(nodes) ==
    IF nodes = <<>> THEN <<>>
    ELSE InsertNode(StableSort(SubSeq(nodes, 1, Len(nodes) - 1)), nodes[Len(nodes)])

(* a sort of the given array alone, leaving every children array as built *)
sortNodesShallow(nodes) == StableSort(nodes)

RECURSIVE sortNodes(_)
sortNodes(nodes) ==
    LET sorted == StableSort(nodes)
    IN  [i \in 1..Len(sorted) |->
            IF sorted[i].isDirectory
            THEN [sorted[i] EXCEPT !.children = sortNodes(@)]
            ELSE sorted[i]]

(* A property that a stored entry lacks reads as undefined *)
Undefined == <<"undefined">>

(* fileEntry.path.split("/") throws a TypeError when path is undefined *)
SplitThrows(fileList) ==
    \E i \in 1..Len(fileList) : fileList[i].path = Undefined

buildDirectoryTree(fileList) ==
    LET st == BuildFiles(EmptyBuild, fileList, 1)
    IN  sortNodes(Nest(st.nodeMap, st.root))

(* a traversal that descends into every directory *)
RECURSIVE getAllFiles(_, _)
getAllFiles(nodes, expanded) ==
    IF nodes = <<>> THEN <<>>
    ELSE LET node == Head(nodes)
         IN  (IF ~node.isDirectory /\ node.fileEntry # <<>> THEN node.fileEntry
              ELSE IF node.isDirectory THEN getAllFiles(node.children, expanded)
              ELSE <<>>)
             \o getAllFiles(Tail(nodes), expanded)

RECURSIVE getVisibleFiles(_, _)
getVisibleFiles(nodes, expanded) ==
    IF nodes = <<>> THEN <<>>
    ELSE LET node == Head(nodes)
         IN  (IF ~node.isDirectory /\ node.fileEntry # <<>> THEN node.fileEntry
              ELSE IF node.isDirectory /\ node.path \in expanded
                   THEN getVisibleFiles(node.children, expanded)
              ELSE <<>>)
             \o getVisibleFiles(Tail(nodes), expanded)

-----------------------------------------------------------------------------
(* ArchiveCache over the object store (keyPath 'key') *)

CachedArchive(key, cachedFiles, now) ==
    [key |-> key, files |-> cachedFiles, timestamp |-> now]

(* a put that is lost *)
StorePutLost(st, rec) == st

(* a put that keeps the record a key already has *)
StorePutKeepsFirst(st, rec) ==
    IF rec.key \in DOMAIN st THEN st
    ELSE [k \in (DOMAIN st) \cup {rec.key} |-> IF k = rec.key THEN rec ELSE st[k]]

(* store.put(cachedArchive): insert, or replace the record with the same key *)
StorePut(st, rec) ==
    [k \in (DOMAIN st) \cup {rec.key} |-> IF k = rec.key THEN rec ELSE st[k]]

(* a get that yields the files of the record in reverse order *)
StoreGetReversed(st, key) ==
    IF key \in DOMAIN st
    THEN [found |-> TRUE,
          files |-> [i \in 1..Len(st[key].files) |->
                        st[key].files[Len(st[key].files) + 1 - i]]]
    ELSE [found |-> FALSE, files |-> <<>>]

(* a get that yields an empty list for a key without a record *)
StoreGetEmptyWhenAbsent(st, key) ==
    [found |-> TRUE, files |-> IF key \in DOMAIN st THEN st[key].files ELSE <<>>]

(* store.get(key), then `result ? result.files : null` *)
StoreGet(st, key) ==
    IF key \in DOMAIN st
    THEN [found |-> TRUE, files |-> st[key].files]
    ELSE [found |-> FALSE, files |-> <<>>]

-----------------------------------------------------------------------------
(* Derived values of a render *)

VisibleFiles == getVisibleFiles(directoryTree, expandedDirs)

(* {currentView === "about" ? <AboutPage /> : <VirtualizedTextViewer
   content={content} />}: the content props with which the viewer is rendered,
   none in the about view *)
ViewerProps == IF currentView = "about" THEN <<>> ELSE <<content>>

(* an effect that leaves focusedFileIndex as it is *)
NoClamp(idx, n) == idx

(* the effect that clamps focusedFileIndex to the visible files *)
ClampFocus(idx, n) ==
    IF idx >= n THEN (IF n > 0 THEN n - 1 ELSE -1) ELSE idx

FocusAfter(idx, tree, expanded) ==
    ClampFocus(idx, Len(getVisibleFiles(tree, expanded)))

InitialExpanded == {P_data}

NoFile == [name |-> "", bytes |-> 0]

IdleProc ==
    [pc |-> "idle", file |-> NoFile, cacheKey |-> Null, fileList |-> <<>>,
     filesToCache |-> <<>>, timestamp |-> 0,
     \* history of the invocation
     seq |-> 0, initAtStart |-> "unmounted", preFiles |-> <<>>,
     priorSuccess |-> FALSE, lookup |-> "none", unzipCalls |-> 0,
     saveCalls |-> 0, puts |-> 0, failure |-> "none", setKey |-> FALSE]

InFlight(p) == proc[p].pc \notin {"idle", "done"}

NoOutcome ==
    [call |-> "none", key |-> Null, threw |-> FALSE, found |-> FALSE,
     files |-> <<>>, replaced |-> FALSE]

persistent == <<store, lastArchiveKey>>
initVars == <<hasInitialized, initPc, initKey>>
reactView == <<content, currentView, selectedFilePath>>
cacheApi == <<cacheOutcome, lastSaved>>
helpers == <<helperCall, viewer>>

(* no function of helpers.ts called yet; no viewer mounted *)
NoCall == [fn |-> "none"]
NoViewer == [mounted |-> FALSE]
history == <<uploadSeq, reloads, ingested>>

-----------------------------------------------------------------------------
(* The page as first loaded: nothing stored, nothing mounted *)
Init ==
    /\ store = <<>>
    /\ lastArchiveKey = Null
    /\ db = "null"
    /\ clock = 0
    /\ hasInitialized = FALSE
    /\ initPc = "unmounted"
    /\ initKey = Null
    /\ files = <<>>
    /\ directoryTree = <<>>
    /\ content = NoContent
    /\ currentView = "about"
    /\ selectedFilePath = EmptyString
    /\ isLoading = FALSE
    /\ focusedFileIndex = -1
    /\ expandedDirs = InitialExpanded
    /\ proc = [p \in Procs |-> IdleProc]
    /\ pendingReads = {}
    /\ unhandled = {}
    /\ uploadSeq = 0
    /\ reloads = 0
    /\ ingested = {}
    /\ cacheOutcome = NoOutcome
    /\ lastSaved = <<>>
    /\ helperCall = NoCall
    /\ viewer = NoViewer

-----------------------------------------------------------------------------
(* The mount effect and initializeApp *)

(* an effect without the guard: every invocation calls initializeApp *)
MountUnguarded ==
    /\ hasInitialized' = TRUE
    /\ initPc' = "init"
    /\ UNCHANGED <<persistent, db, clock, initKey, files, directoryTree,
                   reactView, isLoading, focusedFileIndex, expandedDirs, proc,
                   pendingReads, unhandled, history, cacheApi, helpers>>

(* useEffect: guarded by hasInitialized; calls initializeApp, which awaits
   archiveCache.init() *)
Mount ==
    /\ ~hasInitialized
    /\ hasInitialized' = TRUE
    /\ initPc' = "init"
    /\ UNCHANGED <<persistent, db, clock, initKey, files, directoryTree,
                   reactView, isLoading, focusedFileIndex, expandedDirs, proc,
                   pendingReads, unhandled, history, cacheApi, helpers>>

(* indexedDB.open succeeds: db is set, then lastArchiveKey is read and, when
   set, archiveCache.get(lastArchiveKey) is issued *)
InitSuccess ==
    /\ initPc = "init"
    /\ db' = "open"
    /\ initKey' = lastArchiveKey
    /\ initPc' = IF lastArchiveKey # Null THEN "get" ELSE "done"
    /\ UNCHANGED <<persistent, clock, hasInitialized, files, directoryTree,
                   reactView, isLoading, focusedFileIndex, expandedDirs, proc,
                   pendingReads, unhandled, history, cacheApi, helpers>>

(* indexedDB.open fails: init rejects, initializeApp rejects and the error is
   logged by .catch(console.error); db stays null *)
InitFailure ==
    /\ initPc = "init"
    /\ initPc' = "failed"
    /\ UNCHANGED <<persistent, db, clock, hasInitialized, initKey, files,
                   directoryTree, reactView, isLoading, focusedFileIndex,
                   expandedDirs, proc, pendingReads, unhandled, history, cacheApi, helpers>>

(* archiveCache.get(lastArchiveKey) resolves *)
RestoreReturn ==
    /\ initPc = "get"
    /\ LET got == StoreGet(store, initKey)
           fileList == CachedFileList(got.files)
           tree == buildDirectoryTree(fileList)
       IN  IF got.found /\ SplitThrows(fileList)
           THEN \* setFiles is called, then buildDirectoryTree throws and
                \* initializeApp rejects into .catch(console.error)
                /\ initPc' = "restoreFailed"
                /\ files' = fileList
                /\ focusedFileIndex' =
                      FocusAfter(focusedFileIndex, directoryTree, expandedDirs)
                /\ UNCHANGED <<directoryTree, currentView>>
           ELSE IF got.found
           THEN /\ initPc' = "done"
                /\ files' = fileList
                /\ directoryTree' = tree
                /\ currentView' = "about"
                /\ focusedFileIndex' = FocusAfter(focusedFileIndex, tree, expandedDirs)
           ELSE /\ initPc' = "done"
                /\ UNCHANGED <<files, directoryTree, currentView, focusedFileIndex>>
    /\ UNCHANGED <<persistent, db, clock, hasInitialized, initKey, content,
                   selectedFilePath, isLoading, expandedDirs, proc, pendingReads, unhandled,
                   history, cacheApi, helpers>>

-----------------------------------------------------------------------------
(* processFile *)

(* a removeItem that removes nothing *)
RemoveItemKeeps(current) == current

(* localStorage.removeItem("lastArchiveKey") *)
RemoveItem(current) == Null

(* the slot a new invocation takes: the first one not in flight *)
FreeSlot(p) ==
    /\ ~InFlight(p)
    /\ \A q \in Procs : q < p => InFlight(q)

(* FileUpload, which the About page renders, passes the chosen or dropped file
   to processFile.  The input is disabled while isLoading; the drop zone is
   not.  processFile runs to its first await: it clears the previous archive
   state, sets isLoading and calls generateKey.  limit bounds the number of
   uploads of a run. *)
ProcessFileStart(p, f, limit) ==
    /\ currentView = "about"
    /\ FreeSlot(p)
    /\ uploadSeq < limit
    /\ files' = <<>>
    /\ directoryTree' = <<>>
    /\ content' = NoContent
    /\ lastArchiveKey' = RemoveItem(lastArchiveKey)
    /\ isLoading' = TRUE
    /\ focusedFileIndex' = FocusAfter(focusedFileIndex, <<>>, expandedDirs)
    /\ uploadSeq' = uploadSeq + 1
    /\ clock' = clock + 1
    /\ proc' = [proc EXCEPT ![p] =
                   [IdleProc EXCEPT !.pc = "generateKey", !.file = f,
                                    !.seq = uploadSeq + 1,
                                    !.initAtStart = initPc,
                                    !.preFiles = files,
                                    !.priorSuccess =
                                        (\E g \in ingested : g.bytes = f.bytes)]]
    /\ UNCHANGED <<store, db, initVars, currentView, selectedFilePath,
                   expandedDirs, pendingReads, unhandled, reloads, ingested, cacheApi, helpers>>

(* a failure path that remembers the key of the failed upload *)
FailsButRemembers(p, why) ==
    /\ proc' = [proc EXCEPT ![p].pc = "done", ![p].failure = why]
    /\ isLoading' = FALSE
    /\ lastArchiveKey' = proc[p].cacheKey
    /\ UNCHANGED <<store, files, directoryTree, reactView, focusedFileIndex,
                   ingested>>

(* catch (error) { console.error } finally { setIsLoading(false) } *)
Fails(p, why) ==
    /\ proc' = [proc EXCEPT ![p].pc = "done", ![p].failure = why]
    /\ isLoading' = FALSE
    /\ UNCHANGED <<persistent, files, directoryTree, reactView, focusedFileIndex,
                   ingested>>

(* generateKey resolves; archiveCache.get(cacheKey) throws when db is null,
   and otherwise issues the request *)
GenerateKeyReturn(p) ==
    /\ proc[p].pc = "generateKey"
    /\ LET key == generateKey(proc[p].file)
       IN  IF db = "null"
           THEN /\ proc' = [proc EXCEPT ![p].pc = "done", ![p].cacheKey = key,
                                        ![p].failure = "notInitialized"]
                /\ isLoading' = FALSE
           ELSE /\ proc' = [proc EXCEPT ![p].pc = "get", ![p].cacheKey = key]
                /\ UNCHANGED isLoading
    /\ UNCHANGED <<persistent, db, clock, initVars, files, directoryTree,
                   reactView, focusedFileIndex, expandedDirs, pendingReads, unhandled,
                   history, cacheApi, helpers>>

(* From localStorage.setItem to the end of the try block, and the finally *)
Applies(p, fileList) ==
    LET tree == buildDirectoryTree(fileList)
    IN  /\ lastArchiveKey' = proc[p].cacheKey
        /\ files' = fileList
        /\ directoryTree' = tree
        /\ content' = NoContent
        /\ currentView' = "about"
        /\ isLoading' = FALSE
        /\ focusedFileIndex' = FocusAfter(focusedFileIndex, tree, expandedDirs)
        /\ ingested' = ingested \cup {proc[p].file}

(* archiveCache.get(cacheKey) resolves: on a hit the cached files are mapped
   and applied; on a miss unzip(file) is called *)
GetReturn(p) ==
    /\ proc[p].pc = "get"
    /\ LET got == StoreGet(store, proc[p].cacheKey)
           fileList == CachedFileList(got.files)
       IN  IF got.found /\ SplitThrows(fileList)
           THEN \* setItem is called, then buildDirectoryTree throws into the
                \* catch of processFile
                /\ proc' = [proc EXCEPT ![p].pc = "done", ![p].lookup = "hit",
                                        ![p].fileList = fileList,
                                        ![p].setKey = TRUE,
                                        ![p].failure = "buildDirectoryTree"]
                /\ lastArchiveKey' = proc[p].cacheKey
                /\ isLoading' = FALSE
                /\ UNCHANGED <<files, directoryTree, content, currentView,
                               focusedFileIndex, ingested>>
           ELSE IF got.found
           THEN /\ proc' = [proc EXCEPT ![p].pc = "done", ![p].lookup = "hit",
                                        ![p].fileList = fileList,
                                        ![p].setKey = TRUE]
                /\ Applies(p, fileList)
           ELSE /\ proc' = [proc EXCEPT ![p].pc = "unzip", ![p].lookup = "miss",
                                        ![p].unzipCalls = @ + 1]
                /\ UNCHANGED <<lastArchiveKey, files, directoryTree, content,
                               currentView, isLoading, focusedFileIndex, ingested>>
    /\ UNCHANGED <<store, db, clock, initVars, selectedFilePath, expandedDirs,
                   pendingReads, unhandled, uploadSeq, reloads, cacheApi, helpers>>

(* unzip(file) settles.  A malformed container rejects.  Otherwise the entries
   are read into filesToCache and fileList and archiveCache.save is called,
   which throws when db is null and otherwise reads Date.now() and issues
   store.put *)
UnzipReturn(p) ==
    /\ proc[p].pc = "unzip"
    /\ IF proc[p].file.bytes \in Malformed
       THEN Fails(p, "unzip")
       ELSE IF db = "null"
       THEN Fails(p, "notInitialized")
       ELSE /\ proc' = [proc EXCEPT
                          ![p].pc = "save",
                          ![p].filesToCache = FilesToCache(proc[p].file.bytes),
                          ![p].fileList = UnzippedFileList(proc[p].file.bytes),
                          ![p].timestamp = clock,
                          ![p].saveCalls = @ + 1]
            /\ UNCHANGED <<persistent, files, directoryTree, reactView, isLoading,
                           focusedFileIndex, ingested>>
    /\ UNCHANGED <<db, clock, initVars, expandedDirs, pendingReads, unhandled, uploadSeq,
                   reloads, cacheApi, helpers>>

(* the put request takes effect in the object store *)
SavePut(p) ==
    /\ proc[p].pc = "save"
    /\ store' = StorePut(store, CachedArchive(proc[p].cacheKey, proc[p].filesToCache,
                                               proc[p].timestamp))
    /\ proc' = [proc EXCEPT ![p].pc = "saved", ![p].puts = @ + 1]
    /\ UNCHANGED <<lastArchiveKey, db, clock, initVars, files, directoryTree,
                   reactView, isLoading, focusedFileIndex, expandedDirs,
                   pendingReads, unhandled, history, cacheApi, helpers>>

(* a failed save after which the key is written all the same *)
SaveErrorRemembers(p) ==
    /\ proc[p].pc = "save"
    /\ FailsButRemembers(p, "save")
    /\ UNCHANGED <<db, clock, initVars, expandedDirs, pendingReads, unhandled, uploadSeq,
                   reloads, cacheApi, helpers>>

(* request.onerror: save rejects (for instance the quota is exceeded) *)
SaveError(p) ==
    /\ proc[p].pc = "save"
    /\ Fails(p, "save")
    /\ UNCHANGED <<db, clock, initVars, expandedDirs, pendingReads, unhandled, uploadSeq,
                   reloads, cacheApi, helpers>>

(* request.onsuccess: save resolves and processFile runs to its end *)
SaveReturn(p) ==
    /\ proc[p].pc = "saved"
    /\ proc' = [proc EXCEPT ![p].pc = "done", ![p].setKey = TRUE]
    /\ Applies(p, proc[p].fileList)
    /\ UNCHANGED <<store, db, clock, initVars, selectedFilePath, expandedDirs,
                   pendingReads, unhandled, uploadSeq, reloads, cacheApi, helpers>>

-----------------------------------------------------------------------------
(* clearArchive, showAbout, handleFileClick *)

(* a clearArchive that also empties the object store *)
ClearArchiveWipesStore ==
    /\ Len(files) > 0
    /\ files' = <<>>
    /\ directoryTree' = <<>>
    /\ content' = NoContent
    /\ selectedFilePath' = EmptyString
    /\ currentView' = "about"
    /\ lastArchiveKey' = Null
    /\ store' = <<>>
    /\ focusedFileIndex' = FocusAfter(focusedFileIndex, <<>>, expandedDirs)
    /\ UNCHANGED <<db, clock, initVars, isLoading, expandedDirs, proc,
                   pendingReads, unhandled, history, cacheApi, helpers>>

(* a clearArchive that empties the entry list and leaves the tree *)
ClearArchiveKeepsTree ==
    /\ Len(files) > 0
    /\ files' = <<>>
    /\ content' = NoContent
    /\ selectedFilePath' = EmptyString
    /\ currentView' = "about"
    /\ lastArchiveKey' = RemoveItem(lastArchiveKey)
    /\ focusedFileIndex' = FocusAfter(focusedFileIndex, directoryTree, expandedDirs)
    /\ UNCHANGED <<store, db, clock, initVars, directoryTree, isLoading,
                   expandedDirs, proc, pendingReads, unhandled, history, cacheApi, helpers>>

(* The Clear button of HeaderBar, rendered when files.length > 0 *)
ClearArchive ==
    /\ Len(files) > 0
    /\ files' = <<>>
    /\ directoryTree' = <<>>
    /\ content' = NoContent
    /\ selectedFilePath' = EmptyString
    /\ currentView' = "about"
    /\ lastArchiveKey' = RemoveItem(lastArchiveKey)
    /\ focusedFileIndex' = FocusAfter(focusedFileIndex, <<>>, expandedDirs)
    /\ UNCHANGED <<store, db, clock, initVars, isLoading, expandedDirs, proc,
                   pendingReads, unhandled, history, cacheApi, helpers>>

(* The About button, or navigating back to the empty hash *)
ShowAbout ==
    /\ currentView = "file"
    /\ selectedFilePath' = EmptyString
    /\ currentView' = "about"
    /\ UNCHANGED <<persistent, db, clock, initVars, files, directoryTree,
                   content, isLoading, focusedFileIndex, expandedDirs, proc,
                   pendingReads, unhandled, history, cacheApi, helpers>>

(* handleFileClick after its await: the entry's bytes are shown, and the focus
   moves to the entry's index in visible, the visibleFiles of the render whose
   callback was invoked *)
(* a handleFileClick that decodes the bytes whatever isBinary says *)
ShowsFileDecoded(fileEntry, visible) ==
    LET data == fileEntry.entry.data
        fileIndex == FindIndexByPath(visible, fileEntry.path)
    IN  /\ content' = TextContent(data)
        /\ selectedFilePath' = fileEntry.path
        /\ currentView' = "file"
        /\ focusedFileIndex' =
              ClampFocus(IF fileIndex >= 0 THEN fileIndex ELSE focusedFileIndex,
                         Len(VisibleFiles))

ShowsFile(fileEntry, visible) ==
    LET data == fileEntry.entry.data
        fileIndex == FindIndexByPath(visible, fileEntry.path)
    IN  /\ content' = IF isBinary(data) THEN BinaryPlaceholder(fileEntry.path)
                      ELSE TextContent(data)
        /\ selectedFilePath' = fileEntry.path
        /\ currentView' = "file"
        /\ focusedFileIndex' =
              ClampFocus(IF fileIndex >= 0 THEN fileIndex ELSE focusedFileIndex,
                         Len(VisibleFiles))

(* handleFileClick on an entry restored from the cache: arrayBuffer() is an
   already resolved promise, so the handler completes before any other event *)
FileClickCached(i) ==
    /\ i \in 1..Len(files)
    /\ files[i].entry.src = "cache"
    /\ ShowsFile(files[i], VisibleFiles)
    /\ UNCHANGED <<persistent, db, clock, initVars, files, directoryTree,
                   isLoading, expandedDirs, proc, pendingReads, unhandled, history, cacheApi, helpers>>

(* handleFileClick on an entry of the container: arrayBuffer() reads and
   inflates the entry, and the handler waits for it *)
FileClickStart(i) ==
    /\ i \in 1..Len(files)
    /\ files[i].entry.src = "zip"
    /\ Cardinality(pendingReads) < MaxPendingReads
    /\ pendingReads' = pendingReads \cup
                         {[fileEntry |-> files[i], visibleFiles |-> VisibleFiles]}
    /\ UNCHANGED <<unhandled, persistent, db, clock, initVars, files, directoryTree,
                   reactView, isLoading, focusedFileIndex, expandedDirs, proc,
                   history, cacheApi, helpers>>

FileReadReturn(r) ==
    /\ r \in pendingReads
    /\ pendingReads' = pendingReads \ {r}
    /\ ShowsFile(r.fileEntry, r.visibleFiles)
    /\ UNCHANGED <<unhandled, persistent, db, clock, initVars, files, directoryTree,
                   isLoading, expandedDirs, proc, history, cacheApi, helpers>>

(* arrayBuffer() rejects (the entry's data cannot be read or inflated):
   handleFileClick has no try/catch and none of its callers awaits or catches
   the promise it returns, so the rejection is unhandled *)
FileReadError(r) ==
    /\ r \in pendingReads
    /\ pendingReads' = pendingReads \ {r}
    /\ unhandled' = unhandled \cup {"handleFileClick"}
    /\ UNCHANGED <<persistent, db, clock, initVars, files, directoryTree,
                   reactView, isLoading, focusedFileIndex, expandedDirs, proc,
                   history, cacheApi, helpers>>

-----------------------------------------------------------------------------
(* A page reload: everything in memory starts over, the object store and
   localStorage stay *)
Reload ==
    /\ reloads < MaxReloads
    /\ reloads' = reloads + 1
    /\ db' = "null"
    /\ hasInitialized' = FALSE
    /\ initPc' = "unmounted"
    /\ initKey' = Null
    /\ files' = <<>>
    /\ directoryTree' = <<>>
    /\ content' = NoContent
    /\ currentView' = "about"
    /\ selectedFilePath' = EmptyString
    /\ isLoading' = FALSE
    /\ focusedFileIndex' = -1
    /\ expandedDirs' = InitialExpanded
    /\ proc' = [p \in Procs |-> IdleProc]
    /\ pendingReads' = {}
    /\ unhandled' = {}
    /\ UNCHANGED <<persistent, clock, uploadSeq, ingested, cacheApi, helpers>>

(* The steps of one page load that need nothing remembered, with at most
   limit uploads *)
PageSteps(limit) ==
    \/ Mount
    \/ InitSuccess
    \/ InitFailure
    \/ \E p \in Procs, f \in UploadFiles : ProcessFileStart(p, f, limit)
    \/ \E p \in Procs : GenerateKeyReturn(p)
    \/ \E p \in Procs : GetReturn(p)
    \/ \E p \in Procs : UnzipReturn(p)
    \/ \E p \in Procs : SavePut(p)
    \/ \E p \in Procs : SaveError(p)
    \/ \E p \in Procs : SaveReturn(p)
    \/ ClearArchive
    \/ ShowAbout
    \/ \E i \in 1..Len(files) : FileClickCached(i)
    \/ \E i \in 1..Len(files) : FileClickStart(i)
    \/ \E r \in pendingReads : FileReadReturn(r)

Next ==
    \/ PageSteps(MaxUploads)
    \/ RestoreReturn
    \/ Reload

Spec == Init /\ [][Next]_vars

(* A first visit: one page load, followed for one upload more *)
NextLong == PageSteps(MaxUploads + 1)

SpecLong == Init /\ [][NextLong]_vars

-----------------------------------------------------------------------------
(* A visit that finds state persisted by earlier visits: the object store
   holds records that processFile saved (under the fingerprint of a container,
   the files of that container), and lastArchiveKey is absent, or names a
   record, or names a record that is no longer there *)

PersistedRecord(bytes) ==
    CachedArchive(Sha256Hex(bytes), FilesToCache(bytes), 0)

PersistedStore(containers) ==
    [k \in { Sha256Hex(b) : b \in containers } |->
        PersistedRecord(CHOOSE b \in containers : Sha256Hex(b) = k)]

InitWarmStart ==
    /\ store \in { PersistedStore(S) : S \in SUBSET (Bytes \ Malformed) }
    /\ lastArchiveKey \in {Null} \cup Keys
    /\ db = "null"
    /\ clock = 0
    /\ hasInitialized = FALSE
    /\ initPc = "unmounted"
    /\ initKey = Null
    /\ files = <<>>
    /\ directoryTree = <<>>
    /\ content = NoContent
    /\ currentView = "about"
    /\ selectedFilePath = EmptyString
    /\ isLoading = FALSE
    /\ focusedFileIndex = -1
    /\ expandedDirs = InitialExpanded
    /\ proc = [p \in Procs |-> IdleProc]
    /\ pendingReads = {}
    /\ unhandled = {}
    /\ uploadSeq = 0
    /\ reloads = 0
    /\ ingested = {}
    /\ cacheOutcome = NoOutcome
    /\ lastSaved = <<>>
    /\ helperCall = NoCall
    /\ viewer = NoViewer

NextWarmStart ==
    \/ Mount
    \/ InitSuccess
    \/ InitFailure
    \/ RestoreReturn
    \/ ClearArchive
    \/ ShowAbout
    \/ \E i \in 1..Len(files) : FileClickCached(i)
    \/ Reload

SpecWarmStart == InitWarmStart /\ [][NextWarmStart]_vars

-----------------------------------------------------------------------------
(* ArchiveCache by itself: init, save, get and clear called in any order with
   any key and any list of at most MaxEntries files.  cacheOutcome is what the
   last call returned; lastSaved is, per key, the list given to the last save
   to that key that clear has not followed. *)

CacheKeys == { Sha256Hex(b) : b \in Bytes \ Malformed }

CacheFiles ==
    { ToCache(e) : e \in { ZipEntry(P_r, FALSE, <<104, 10, 105>>),
                           ZipEntry(P_r, FALSE, <<200>>),
                           ZipEntry(P_data_a, FALSE, <<80, 75, 0>>) } }

CacheFileLists ==
    UNION { [1..n -> CacheFiles] : n \in 0..MaxEntries }

appState ==
    <<lastArchiveKey, initVars, files, directoryTree, reactView, isLoading,
      focusedFileIndex, expandedDirs, proc, pendingReads, unhandled, history, helpers>>

(* init(): indexedDB.open succeeds *)
CacheInit ==
    /\ db = "null"
    /\ db' = "open"
    /\ cacheOutcome' = [NoOutcome EXCEPT !.call = "init"]
    /\ UNCHANGED <<store, clock, lastSaved, appState>>

(* save(key, files): throws when db is null; otherwise puts the record and
   resolves *)
CacheSave(key, cachedFiles) ==
    /\ clock < MaxSaves
    /\ clock' = clock + 1
    /\ IF db = "null"
       THEN /\ cacheOutcome' = [NoOutcome EXCEPT !.call = "save", !.key = key,
                                                 !.threw = TRUE]
            /\ UNCHANGED <<store, lastSaved>>
       ELSE /\ store' = StorePut(store, CachedArchive(key, cachedFiles, clock))
            /\ cacheOutcome' = [NoOutcome EXCEPT !.call = "save", !.key = key,
                                                 !.replaced = (key \in DOMAIN store)]
            /\ lastSaved' = [k \in (DOMAIN lastSaved) \cup {key} |->
                                IF k = key THEN cachedFiles ELSE lastSaved[k]]
    /\ UNCHANGED <<db, appState>>

(* get(key): throws when db is null; otherwise resolves with the files of the
   record, or with null *)
CacheGet(key) ==
    /\ cacheOutcome' =
          IF db = "null"
          THEN [NoOutcome EXCEPT !.call = "get", !.key = key, !.threw = TRUE]
          ELSE LET got == StoreGet(store, key)
               IN  [NoOutcome EXCEPT !.call = "get", !.key = key,
                                     !.found = got.found, !.files = got.files]
    /\ UNCHANGED <<store, db, clock, lastSaved, appState>>

(* store.clear() *)
StoreClear(st) == <<>>

(* a clear that does not look at db *)
CacheClearUnguarded ==
    /\ store' = StoreClear(store)
    /\ cacheOutcome' = [NoOutcome EXCEPT !.call = "clear"]
    /\ lastSaved' = <<>>
    /\ UNCHANGED <<db, clock, appState>>

(* clear(): throws when db is null; otherwise empties the object store *)
CacheClear ==
    /\ IF db = "null"
       THEN /\ cacheOutcome' = [NoOutcome EXCEPT !.call = "clear", !.threw = TRUE]
            /\ UNCHANGED <<store, lastSaved>>
       ELSE /\ store' = StoreClear(store)
            /\ cacheOutcome' = [NoOutcome EXCEPT !.call = "clear"]
            /\ lastSaved' = <<>>
    /\ UNCHANGED <<db, clock, appState>>

NextCache ==
    \/ CacheInit
    \/ \E key \in CacheKeys, cachedFiles \in CacheFileLists : CacheSave(key, cachedFiles)
    \/ \E key \in CacheKeys : CacheGet(key)
    \/ CacheClear

(* The object store is empty, or holds a record of an earlier visit *)
InitCache ==
    /\ store \in {<<>>, PersistedStore({2})}
    /\ lastArchiveKey = Null
    /\ db = "null"
    /\ clock = 0
    /\ hasInitialized = FALSE
    /\ initPc = "unmounted"
    /\ initKey = Null
    /\ files = <<>>
    /\ directoryTree = <<>>
    /\ content = NoContent
    /\ currentView = "about"
    /\ selectedFilePath = EmptyString
    /\ isLoading = FALSE
    /\ focusedFileIndex = -1
    /\ expandedDirs = InitialExpanded
    /\ proc = [p \in Procs |-> IdleProc]
    /\ pendingReads = {}
    /\ unhandled = {}
    /\ uploadSeq = 0
    /\ reloads = 0
    /\ ingested = {}
    /\ cacheOutcome = NoOutcome
    /\ lastSaved = <<>>
    /\ helperCall = NoCall
    /\ viewer = NoViewer

SpecCache == InitCache /\ [][NextCache]_vars

-----------------------------------------------------------------------------
(* The app, with ArchiveCache.clear() called from outside it at any time (no
   code of the app calls clear) *)
NextWithClear ==
    \/ Next
    \/ CacheClear

SpecWithClear == Init /\ [][NextWithClear]_vars

-----------------------------------------------------------------------------
(* The app, with reads of entries that can fail *)
NextWithReadErrors ==
    \/ Next
    \/ \E r \in pendingReads : FileReadError(r)

SpecWithReadErrors == Init /\ [][NextWithReadErrors]_vars

-----------------------------------------------------------------------------
(* buildDirectoryTree and getVisibleFiles by themselves: the tree is built
   from any list of at most MaxTreeFiles entries with distinct paths (the keys
   of the entries object of unzip), and the directories that the sidebar
   renders are expanded and collapsed *)

MaxTreeFiles == 3

TreePaths ==
    { <<"a">>, <<"B">>, <<"d">>,
      <<"d", "/", "b">>, <<"d", "/", "a">>, <<"d", "/", "x", "/", "y">> }

TreeFileEntry(path) == ZipFileEntry(ZipEntry(path, FALSE, <<104>>))

TreeFileLists ==
    { [i \in 1..Len(ps) |-> TreeFileEntry(ps[i])] :
        ps \in { qs \in UNION { [1..n -> TreePaths] : n \in 1..MaxTreeFiles } :
                    \A i, j \in 1..Len(qs) : i # j => qs[i] # qs[j] } }

(* the directory nodes that DirectoryNode renders: those of the root, and the
   children of a rendered directory that is expanded *)
RECURSIVE RenderedDirectories(_, _)
RenderedDirectories(nodes, expanded) ==
    UNION { IF ~nodes[i].isDirectory THEN {}
            ELSE {nodes[i].path} \cup
                 (IF nodes[i].path \in expanded
                  THEN RenderedDirectories(nodes[i].children, expanded)
                  ELSE {}) : i \in 1..Len(nodes) }

InitTree ==
    /\ files \in TreeFileLists
    /\ store = <<>>
    /\ lastArchiveKey = Null
    /\ db = "null"
    /\ clock = 0
    /\ hasInitialized = FALSE
    /\ initPc = "unmounted"
    /\ initKey = Null
    /\ directoryTree = <<>>
    /\ content = NoContent
    /\ currentView = "about"
    /\ selectedFilePath = EmptyString
    /\ isLoading = FALSE
    /\ focusedFileIndex = -1
    /\ expandedDirs = InitialExpanded
    /\ proc = [p \in Procs |-> IdleProc]
    /\ pendingReads = {}
    /\ unhandled = {}
    /\ uploadSeq = 0
    /\ reloads = 0
    /\ ingested = {}
    /\ cacheOutcome = NoOutcome
    /\ lastSaved = <<>>
    /\ helperCall = NoCall
    /\ viewer = NoViewer

(* setDirectoryTree(buildDirectoryTree(fileList)) *)
BuildTree ==
    /\ directoryTree = <<>>
    /\ directoryTree' = buildDirectoryTree(files)
    /\ UNCHANGED <<persistent, db, clock, initVars, files, reactView, isLoading,
                   focusedFileIndex, expandedDirs, proc, pendingReads, unhandled,
                   history, cacheApi, helpers>>

(* toggleExpand of a rendered directory, and the effect that clamps the focus *)
ToggleExpand(path) ==
    /\ path \in RenderedDirectories(directoryTree, expandedDirs)
    /\ expandedDirs' = IF path \in expandedDirs THEN expandedDirs \ {path}
                       ELSE expandedDirs \cup {path}
    /\ focusedFileIndex' = FocusAfter(focusedFileIndex, directoryTree, expandedDirs')
    /\ UNCHANGED <<persistent, db, clock, initVars, files, directoryTree,
                   reactView, isLoading, proc, pendingReads, unhandled, history,
                   cacheApi, helpers>>

NextTree ==
    \/ BuildTree
    \/ \E path \in RenderedDirectories(directoryTree, expandedDirs) : ToggleExpand(path)

SpecTree == InitTree /\ [][NextTree]_vars

(* buildDirectoryTree on lists in which a path may occur more than once; the
   entry at position i holds the one byte 103 + i, so that entries of the same
   path are told apart *)
DuplicatePaths ==
    { <<"a">>, <<"d">>, <<"d", "/", "b">>, <<"d", "/", "b", "/", "c">> }

DuplicateFileLists ==
    { [i \in 1..Len(ps) |-> ZipFileEntry(ZipEntry(ps[i], FALSE, <<103 + i>>))] :
        ps \in UNION { [1..n -> DuplicatePaths] : n \in 1..MaxTreeFiles } }

InitTreeDuplicates ==
    /\ files \in DuplicateFileLists
    /\ store = <<>>
    /\ lastArchiveKey = Null
    /\ db = "null"
    /\ clock = 0
    /\ hasInitialized = FALSE
    /\ initPc = "unmounted"
    /\ initKey = Null
    /\ directoryTree = <<>>
    /\ content = NoContent
    /\ currentView = "about"
    /\ selectedFilePath = EmptyString
    /\ isLoading = FALSE
    /\ focusedFileIndex = -1
    /\ expandedDirs = InitialExpanded
    /\ proc = [p \in Procs |-> IdleProc]
    /\ pendingReads = {}
    /\ unhandled = {}
    /\ uploadSeq = 0
    /\ reloads = 0
    /\ ingested = {}
    /\ cacheOutcome = NoOutcome
    /\ lastSaved = <<>>
    /\ helperCall = NoCall
    /\ viewer = NoViewer

SpecTreeDuplicates == InitTreeDuplicates /\ [][NextTree]_vars

-----------------------------------------------------------------------------
(* The sidebar under the keyboard: one page load with the directory toggles
   and the keydown handler of the document *)

(* an ArrowDown that goes from the last visible file to the first *)
ArrowDownWraps ==
    /\ Len(VisibleFiles) > 0
    /\ focusedFileIndex' =
          ClampFocus(IF focusedFileIndex = -1 THEN 0
                     ELSE IF focusedFileIndex + 1 < Len(VisibleFiles)
                          THEN focusedFileIndex + 1
                          ELSE 0,
                     Len(VisibleFiles))
    /\ UNCHANGED <<persistent, db, clock, initVars, files, directoryTree,
                   reactView, isLoading, expandedDirs, proc, pendingReads,
                   unhandled, history, cacheApi, helpers>>

(* handleKeyDown, ArrowDown: nothing when no file is visible *)
ArrowDown ==
    /\ Len(VisibleFiles) > 0
    /\ focusedFileIndex' =
          ClampFocus(IF focusedFileIndex = -1 THEN 0
                     ELSE IF focusedFileIndex + 1 < Len(VisibleFiles)
                          THEN focusedFileIndex + 1
                          ELSE focusedFileIndex,
                     Len(VisibleFiles))
    /\ UNCHANGED <<persistent, db, clock, initVars, files, directoryTree,
                   reactView, isLoading, expandedDirs, proc, pendingReads,
                   unhandled, history, cacheApi, helpers>>

(* handleKeyDown, ArrowUp *)
ArrowUp ==
    /\ Len(VisibleFiles) > 0
    /\ focusedFileIndex' =
          ClampFocus(IF focusedFileIndex = -1 THEN 0
                     ELSE IF focusedFileIndex - 1 >= 0
                          THEN focusedFileIndex - 1
                          ELSE focusedFileIndex,
                     Len(VisibleFiles))
    /\ UNCHANGED <<persistent, db, clock, initVars, files, directoryTree,
                   reactView, isLoading, expandedDirs, proc, pendingReads,
                   unhandled, history, cacheApi, helpers>>

(* handleKeyDown, Enter: handleFileClick on the focused visible file *)
EnterKey ==
    /\ Len(VisibleFiles) > 0
    /\ focusedFileIndex >= 0
    /\ focusedFileIndex + 1 \in DOMAIN VisibleFiles
    /\ \E i \in 1..Len(files) :
          /\ files[i] = VisibleFiles[focusedFileIndex + 1]
          /\ FileClickCached(i) \/ FileClickStart(i)

NextSidebar ==
    \/ PageSteps(MaxUploads)
    \/ \E path \in RenderedDirectories(directoryTree, expandedDirs) :
          Len(files) > 0 /\ ToggleExpand(path)
    \/ ArrowDown
    \/ ArrowUp
    \/ EnterKey

SpecSidebar == Init /\ [][NextSidebar]_vars

-----------------------------------------------------------------------------
(* helpers.ts: splitTextIntoBlocks and isBinary, called on their own.  A text
   is the sequence of its code units. *)

LineFeed == 10
LetterX == 120

(* String.prototype.split("\n"): the lines of a text are those of its first
   half and those of its second half, the last of the one and the first of
   the other being one line *)
RECURSIVE SplitLines(_)
SplitLines(text) ==
    IF text = <<>> THEN << <<>> >>
    ELSE IF Len(text) = 1
         THEN (IF text[1] = LineFeed THEN << <<>>, <<>> >> ELSE <<text>>)
         ELSE LET half == Len(text) \div 2
                  left == SplitLines(SubSeq(text, 1, half))
                  right == SplitLines(SubSeq(text, half + 1, Len(text)))
              IN  SubSeq(left, 1, Len(left) - 1)
                  \o << left[Len(left)] \o right[1] >>
                  \o Tail(right)

(* Array.prototype.join("\n") *)
RECURSIVE JoinLines(_)
JoinLines(lines) ==
    IF lines = <<>> THEN <<>>
    ELSE IF Len(lines) = 1 THEN lines[1]
    ELSE LET half == Len(lines) \div 2
         IN  JoinLines(SubSeq(lines, 1, half)) \o <<LineFeed>>
             \o JoinLines(SubSeq(lines, half + 1, Len(lines)))

(* Array.prototype.slice(from, to), both zero-based and within 0..length or
   beyond it *)
Slice(s, from, to) == SubSeq(s, from + 1, Min(to, Len(s)))

(* for (let i = 0; i < lines.length; i += linesPerBlock) blocks.push(...) *)
RECURSIVE BlocksFrom(_, _, _, _)
BlocksFrom(lines, i, linesPerBlock, blocks) ==
    IF i < Len(lines)
    THEN BlocksFrom(lines, i + linesPerBlock, linesPerBlock,
                    Append(blocks, JoinLines(Slice(lines, i, i + linesPerBlock))))
    ELSE blocks

(* a partition that leaves the empty lines out *)
splitTextSkippingEmptyLines(text, linesPerBlock) ==
    BlocksFrom(SelectSeq(SplitLines(text), LAMBDA line : line # <<>>), 0,
               linesPerBlock, <<>>)

(* a partition that joins a short last block to the block before it *)
splitTextMergingLastBlock(text, linesPerBlock) ==
    LET blocks == BlocksFrom(SplitLines(text), 0, linesPerBlock, <<>>)
        n == Len(blocks)
    IN  IF n >= 2 /\ Len(SplitLines(text)) % linesPerBlock # 0
        THEN Append(SubSeq(blocks, 1, n - 2),
                    blocks[n - 1] \o <<LineFeed>> \o blocks[n])
        ELSE blocks

splitTextIntoBlocks(text, linesPerBlock) ==
    BlocksFrom(SplitLines(text), 0, linesPerBlock, <<>>)

(* The arguments tried *)
MaxTextLen == 5
MaxLinesPerBlock == 3
MaxDataLen == 2

Texts == UNION { [1..n -> {LineFeed, LetterX}] : n \in 0..MaxTextLen }

SampleBytes == {0, 6, 7, 9, 10, 13, 14, 31, 32, 65, 127, 200}

(* n bytes of the letter A *)
AsciiText(n) == [i \in 1..n |-> 65]

Buffers ==
    UNION { [1..n -> SampleBytes] : n \in 0..MaxDataLen }
    \cup { AsciiText(n) \o <<0>> \o AsciiText(m) :
             n \in {50, BinaryPrefixLen - 1, BinaryPrefixLen}, m \in {0, 1} }
    \cup { AsciiText(BinaryPrefixLen + 1) }

page ==
    <<store, db, clock, lastArchiveKey, initVars, files, directoryTree, reactView,
      isLoading, focusedFileIndex, expandedDirs, proc, pendingReads, unhandled,
      history, cacheApi>>

CallSplitTextIntoBlocks(text, linesPerBlock) ==
    /\ helperCall' = [fn |-> "splitTextIntoBlocks", text |-> text,
                      linesPerBlock |-> linesPerBlock,
                      blocks |-> splitTextIntoBlocks(text, linesPerBlock)]
    /\ UNCHANGED <<page, viewer>>

CallIsBinary(data) ==
    /\ helperCall' = [fn |-> "isBinary", data |-> data, result |-> isBinary(data)]
    /\ UNCHANGED <<page, viewer>>

NextHelpers ==
    \/ \E text \in Texts, linesPerBlock \in 1..MaxLinesPerBlock :
          CallSplitTextIntoBlocks(text, linesPerBlock)
    \/ \E data \in Buffers : CallIsBinary(data)

SpecHelpers == Init /\ [][NextHelpers]_vars

-----------------------------------------------------------------------------
(* VirtualizedTextViewer.  The component computes the blocks of its content
   and hands their number, a size estimate and an overscan to useVirtualizer;
   it renders the items the virtualizer returns, each at its start offset,
   inside a container as high as the virtualizer's total size.  No item is
   given the virtualizer's measureElement, so no block is ever measured and
   the estimate is the best-known height of every block. *)

LinesThreshold == 50
LargeBlockLines == 100
LineHeight == 20
Overscan == 2

(* a block size chosen with the threshold itself counted as long *)
linesPerBlockBelowThreshold(text) ==
    IF Len(SplitLines(text)) < LinesThreshold THEN 1 ELSE LargeBlockLines

(* const linesPerBlock = lines.length <= 50 ? 1 : 100 *)
linesPerBlock(text) ==
    IF Len(SplitLines(text)) <= LinesThreshold THEN 1 ELSE LargeBlockLines

(* estimateSize: () => linesPerBlock * 20, the same for every index *)
estimateSize(v, index) == v.linesPerBlock * LineHeight

(* an option object without overscan *)
overscanNone(v) == 0

(* the overscan option *)
overscan(v) == Overscan

(* the virtualizer's sizes for a content: nothing is measured, so every item
   of the new content has the estimate made for that content *)
Measurements(old, new) == [i \in 1..new.count |-> estimateSize(new, i - 1)]

(* the size the virtualizer lays item index out with *)
ItemSize(v, index) == v.sizes[index + 1]

(* the virtualizer's layout: item index starts where the items before it end *)
RECURSIVE ItemStart(_, _)
ItemStart(v, index) ==
    IF index = 0 THEN 0
    ELSE ItemStart(v, index - 1) + ItemSize(v, index - 1)

ItemEnd(v, index) == ItemStart(v, index) + ItemSize(v, index)

(* virtualizer.getTotalSize() *)
getTotalSize(v) == IF v.count = 0 THEN 0 ELSE ItemEnd(v, v.count - 1)

(* the items intersecting [scrollTop, scrollTop + viewportHeight) *)
InViewport(v) ==
    { i \in 0..(v.count - 1) :
        /\ ItemStart(v, i) < v.scrollTop + v.viewportHeight
        /\ ItemEnd(v, i) > v.scrollTop }

SetMin(S) == CHOOSE x \in S : \A y \in S : x <= y
SetMax(S) == CHOOSE x \in S : \A y \in S : x >= y

(* the indices of virtualizer.getVirtualItems(): the items in the viewport and
   overscan more on each side *)
getVirtualItems(v) ==
    IF InViewport(v) = {} THEN {}
    ELSE LET first == SetMin(InViewport(v)) - overscan(v)
             last == SetMax(InViewport(v)) + overscan(v)
         IN  (IF first < 0 THEN 0 ELSE first)
             ..(IF last > v.count - 1 THEN v.count - 1 ELSE last)

(* The contents and viewports tried *)
ViewerLineCounts == {1, 2, 50, 51, 100, 101, 150, 301}
ViewerTexts == {<<>>} \cup { [i \in 1..(n - 1) |-> LineFeed] : n \in ViewerLineCounts }
                      \cup { <<LetterX>> }
ViewportHeights == {90, 400}

(* the positions the scroll element can be scrolled to *)
ScrollPositions(v) ==
    { y \in 0..(getTotalSize(v) - v.viewportHeight) : y % 50 = 0 }

(* the furthest the scroll element can be scrolled *)
MaxScrollTop(v) ==
    IF getTotalSize(v) > v.viewportHeight
    THEN getTotalSize(v) - v.viewportHeight ELSE 0

(* a component without the effect: the element keeps its position, as far as
   the new content reaches *)
scrollTopKept(old, new) ==
    IF old.mounted THEN Min(old.scrollTop, MaxScrollTop(new)) ELSE 0

(* the scroll position after a render.  The effect runs when the content
   differs from that of the previous render and sets scrollTop to 0 when the
   content is not empty; an empty content has nothing to scroll over; with
   the content unchanged the element keeps its position, as far as the
   viewport allows *)
scrollTopAfterRender(old, new) ==
    IF old.mounted /\ old.content = new.content
    THEN Min(old.scrollTop, MaxScrollTop(new))
    ELSE 0

(* the component is rendered with a content, in a scroll element of the given
   height *)
ViewerRender(text, height) ==
    /\ \E perBlock \in {linesPerBlock(text)} :
       \E count \in {Len(splitTextIntoBlocks(text, perBlock))} :
       \E new \in {[mounted |-> TRUE, content |-> text,
                    linesPerBlock |-> perBlock, count |-> count,
                    viewportHeight |-> height]} :
       \E sizes \in {Measurements(viewer, new)} :
       \E laid \in {[mounted |-> TRUE, content |-> text,
                     linesPerBlock |-> perBlock, count |-> count,
                     viewportHeight |-> height, sizes |-> sizes]} :
          viewer' = [mounted |-> TRUE, content |-> text,
                     linesPerBlock |-> perBlock, count |-> count,
                     viewportHeight |-> height, sizes |-> sizes,
                     scrollTop |-> scrollTopAfterRender(viewer, laid)]
    /\ UNCHANGED <<page, helperCall>>

(* the user scrolls the element; an empty content has no scroll element *)
ViewerScroll(y) ==
    /\ viewer.mounted
    /\ viewer.content # <<>>
    /\ 0 <= y /\ y <= getTotalSize(viewer) - viewer.viewportHeight
    /\ viewer' = [viewer EXCEPT !.scrollTop = y]
    /\ UNCHANGED <<page, helperCall>>

NextViewer ==
    \/ \E text \in ViewerTexts, height \in ViewportHeights : ViewerRender(text, height)
    \/ viewer.mounted /\ \E y \in ScrollPositions(viewer) : ViewerScroll(y)

SpecViewer == Init /\ [][NextViewer]_vars

-----------------------------------------------------------------------------
(* A visit that finds a malformed record in the object store: under the
   fingerprint of container 1, a record whose one entry has no path *)

MalformedRecord ==
    CachedArchive(Sha256Hex(1),
                  <<[path |-> Undefined, content |-> <<104>>, size |-> 1]>>, 0)

IsMalformedRecord(rec) ==
    \E i \in 1..Len(rec.files) : rec.files[i].path = Undefined

InitMalformedRecord ==
    /\ store = StorePut(<<>>, MalformedRecord)
    /\ lastArchiveKey \in {Null, Sha256Hex(1)}
    /\ db = "null"
    /\ clock = 0
    /\ hasInitialized = FALSE
    /\ initPc = "unmounted"
    /\ initKey = Null
    /\ files = <<>>
    /\ directoryTree = <<>>
    /\ content = NoContent
    /\ currentView = "about"
    /\ selectedFilePath = EmptyString
    /\ isLoading = FALSE
    /\ focusedFileIndex = -1
    /\ expandedDirs = InitialExpanded
    /\ proc = [p \in Procs |-> IdleProc]
    /\ pendingReads = {}
    /\ unhandled = {}
    /\ uploadSeq = 0
    /\ reloads = 0
    /\ ingested = {}
    /\ cacheOutcome = NoOutcome
    /\ lastSaved = <<>>
    /\ helperCall = NoCall
    /\ viewer = NoViewer

SpecMalformedRecord == InitMalformedRecord /\ [][Next]_vars

-----------------------------------------------------------------------------
(* Properties *)

(* what a file list holds, without the handles that read it *)
Listing(fileList) ==
    [i \in 1..Len(fileList) |->
        [path |-> fileList[i].path, content |-> fileList[i].entry.data,
         size |-> fileList[i].size]]

RECURSIVE TreeListing(_)
TreeListing(nodes) ==
    [i \in 1..Len(nodes) |->
        [name |-> nodes[i].name, path |-> nodes[i].path,
         isDirectory |-> nodes[i].isDirectory,
         children |-> TreeListing(nodes[i].children),
         fileEntry |-> Listing(nodes[i].fileEntry)]]

Idle(p) == proc[p].pc \in {"idle", "done"}

(* C1: when a second upload starts while an earlier one is in flight, then
   once both have completed the entry list, the tree and the last-active key
   are those of the later-started upload (or have been cleared since),
   whichever of the two finished last. *)
C1_LaterUploadSupersedes ==
    \A p, q \in Procs :
        (/\ proc[p].seq > 0
         /\ proc[p].seq < proc[q].seq
         /\ proc[p].pc = "done"
         /\ proc[q].pc = "done"
         /\ proc[q].failure = "none")
        => /\ files = <<>> \/ Listing(files) = Listing(proc[q].fileList)
           /\ directoryTree = <<>>
              \/ TreeListing(directoryTree)
                   = TreeListing(buildDirectoryTree(proc[q].fileList))
           /\ lastArchiveKey \in {Null, proc[q].cacheKey}

(* C2: an upload whose lookup is a hit takes its entry list from the stored
   record and calls neither unzip nor save; and an upload of bytes that an
   earlier upload ingested successfully, whatever the name of the file and
   whenever the record was written, is a hit whenever its lookup is made. *)
C2_HitUsesStoredRecord ==
    \A p \in Procs :
        /\ (proc[p].lookup = "hit")
           => /\ proc[p].unzipCalls = 0
              /\ proc[p].saveCalls = 0
              /\ proc[p].puts = 0
              /\ proc[p].cacheKey \in DOMAIN store
              /\ Listing(proc[p].fileList) = store[proc[p].cacheKey].files
        /\ (proc[p].priorSuccess /\ proc[p].lookup # "none")
           => proc[p].lookup = "hit"

C2_Witness ==
    \E p \in Procs :
        /\ proc[p].lookup = "hit"
        /\ proc[p].pc = "done"
        /\ proc[p].file = [name |-> "y.zip", bytes |-> 1]
        /\ [name |-> "x.zip", bytes |-> 1] \in ingested
        /\ [name |-> "y.zip", bytes |-> 1] \in ingested
        /\ store[proc[p].cacheKey].timestamp < proc[p].seq
        /\ files = proc[p].fileList

(* C3: an upload whose lookup is a miss and whose container unzips calls
   unzip once, writes one record, under the fingerprint of the file's bytes
   and holding the container's files, and sets the last-active key to that
   fingerprint in a later step, when the record is in the store. *)
C3_MissWritesThenRemembers ==
    [][\A p \in Procs :
        /\ (proc[p].pc = "save" /\ proc'[p].pc = "saved")
           => /\ DOMAIN store' = DOMAIN store \cup {Sha256Hex(proc[p].file.bytes)}
              /\ store'[Sha256Hex(proc[p].file.bytes)].files = FilesToCache(proc[p].file.bytes)
              /\ \A k \in DOMAIN store : k # Sha256Hex(proc[p].file.bytes) => store'[k] = store[k]
              /\ lastArchiveKey' = lastArchiveKey
              /\ ~proc'[p].setKey
        /\ (proc[p].lookup = "miss" /\ ~proc[p].setKey /\ proc'[p].setKey)
           => /\ proc[p].pc = "saved"
              /\ proc[p].unzipCalls = 1
              /\ proc[p].saveCalls = 1
              /\ proc[p].puts = 1
              /\ Sha256Hex(proc[p].file.bytes) \in DOMAIN store
              /\ store[Sha256Hex(proc[p].file.bytes)].files = FilesToCache(proc[p].file.bytes)
              /\ store' = store
              /\ lastArchiveKey' = Sha256Hex(proc[p].file.bytes)
        /\ (proc'[p].lookup = "miss" /\ proc'[p].pc = "done" /\ proc'[p].failure = "none")
           => /\ proc'[p].setKey
              /\ proc'[p].unzipCalls = 1
              /\ proc'[p].puts = 1
      ]_vars

C3_Witness ==
    \E p \in Procs :
        /\ proc[p].lookup = "miss"
        /\ proc[p].pc = "done"
        /\ proc[p].failure = "none"
        /\ proc[p].setKey
        /\ proc[p].puts = 1
        /\ lastArchiveKey = proc[p].cacheKey
        /\ proc[p].cacheKey \in DOMAIN store
        /\ files = proc[p].fileList

(* C4: the step in which an upload begins leaves the entry list, the tree,
   the selection and the last-active key cleared. *)
C4_UploadStartClears ==
    [][\A p \in Procs :
        (Idle(p) /\ proc'[p].pc = "generateKey")
        => /\ files' = <<>>
           /\ directoryTree' = <<>>
           /\ selectedFilePath' = EmptyString
           /\ lastArchiveKey' = Null
      ]_vars

(* C5: an upload that begins after init has failed, with a well-formed
   container, completes as a miss: it unzips the container and populates the
   entry list and the tree. *)
C5_InitFailureDegradesToMiss ==
    \A p \in Procs :
        (/\ proc[p].initAtStart = "failed"
         /\ proc[p].pc = "done"
         /\ proc[p].file.bytes \notin Malformed)
        => /\ proc[p].failure = "none"
           /\ proc[p].lookup = "miss"
           /\ proc[p].unzipCalls = 1

(* C6: when the lookup of the remembered key returns at start, then if the
   store holds a record for the key, the entry list becomes the files of that
   record, in order, behind handles that are already resolved, the tree
   becomes the tree an upload of the container builds, and no upload (hence
   no unzip) is started; if the store holds no record, the entry list and the
   tree stay as they are and initialization completes without failing. *)
C6_RestoreOnStart ==
    [][(initPc = "get" /\ initPc' = "done")
       => /\ proc' = proc
          /\ store' = store
          /\ IF initKey \in DOMAIN store
             THEN /\ Listing(files') = store[initKey].files
                  /\ \A i \in 1..Len(files') : files'[i].entry.src = "cache"
                  /\ \A b \in Bytes \ Malformed :
                        Sha256Hex(b) = initKey
                        => TreeListing(directoryTree')
                             = TreeListing(buildDirectoryTree(UnzippedFileList(b)))
             ELSE /\ files' = files
                  /\ directoryTree' = directoryTree
      ]_vars

C6_Witness ==
    /\ initPc = "done"
    /\ initKey = Sha256Hex(1)
    /\ initKey \in DOMAIN store
    /\ Len(files) = 2
    /\ Len(directoryTree) = 2
    /\ directoryTree[1].isDirectory
    /\ directoryTree[1].children # <<>>
    /\ \A p \in Procs : proc[p].pc = "idle"

(* C7: the step in which unzip fails writes nothing to the store, does not
   set the last-active key and commits no entry list and no tree; no record
   is ever stored under the fingerprint of a malformed container and the
   last-active key is never that fingerprint. *)
C7_UnzipFailureCommitsNothing ==
    [][/\ \A p \in Procs :
            (proc[p].pc = "unzip" /\ proc'[p].failure = "unzip")
            => /\ proc'[p].pc = "done"
               /\ proc'[p].puts = 0
               /\ ~proc'[p].setKey
               /\ store' = store
               /\ lastArchiveKey' = lastArchiveKey
               /\ files' = files
               /\ directoryTree' = directoryTree
       /\ \A b \in Malformed :
            /\ Sha256Hex(b) \notin DOMAIN store'
            /\ lastArchiveKey' # Sha256Hex(b)
      ]_vars

C7_Witness ==
    \E p \in Procs :
        /\ proc[p].pc = "done"
        /\ proc[p].failure = "unzip"
        /\ proc[p].unzipCalls = 1
        /\ store # <<>>
        /\ lastArchiveKey = Null

(* C8: after unzip fails in an upload made over a loaded archive, the entry
   list and the tree are those of the archive loaded before the upload. *)
C8_FailedUploadKeepsArchive ==
    \A p \in Procs :
        (/\ proc[p].pc = "done"
         /\ proc[p].failure = "unzip"
         /\ proc[p].preFiles # <<>>
         /\ proc[p].seq = uploadSeq
         /\ \A q \in Procs \ {p} : ~InFlight(q))
        => /\ files = proc[p].preFiles
           /\ directoryTree = buildDirectoryTree(proc[p].preFiles)

(* C9: the step that clears the archive and the step in which an upload
   begins leave the last-active key absent; and initialization that finds the
   key absent completes without restoring anything. *)
C9_KeyClearedOnClearOrUpload ==
    [][/\ (files # <<>> /\ files' = <<>> /\ reloads' = reloads)
          => lastArchiveKey' = Null
       /\ (\E p \in Procs : Idle(p) /\ proc'[p].pc = "generateKey")
          => lastArchiveKey' = Null
       /\ (initPc = "init" /\ db' = "open" /\ lastArchiveKey = Null)
          => /\ initPc' = "done"
             /\ files' = files
             /\ directoryTree' = directoryTree
      ]_vars

C9_Witness ==
    /\ reloads = 1
    /\ initPc = "done"
    /\ initKey = Null
    /\ lastArchiveKey = Null
    /\ files = <<>>
    /\ directoryTree = <<>>
    /\ store # <<>>
    /\ ingested # {}
    /\ \A p \in Procs : proc[p].pc = "idle"

(* C10: get(k), after save(k, entries) with a non-empty list and with no
   later save to k and no clear in between, returns without throwing a list
   equal to entries: the same paths, sizes and contents in the same order. *)
C10_SaveThenGet ==
    (/\ cacheOutcome.call = "get"
     /\ cacheOutcome.key \in DOMAIN lastSaved
     /\ lastSaved[cacheOutcome.key] # <<>>)
    => /\ ~cacheOutcome.threw
       /\ cacheOutcome.found
       /\ cacheOutcome.files = lastSaved[cacheOutcome.key]

C10_Witness ==
    /\ cacheOutcome.call = "get"
    /\ cacheOutcome.found
    /\ cacheOutcome.key \in DOMAIN lastSaved
    /\ Len(cacheOutcome.files) = 2
    /\ cacheOutcome.files[1] # cacheOutcome.files[2]
    /\ cacheOutcome.files = lastSaved[cacheOutcome.key]
    /\ Cardinality(DOMAIN store) = 2
    /\ clock = MaxSaves

(* C11: get(key) with the store open and no record under key returns the
   absent value, without throwing. *)
C11_GetAbsentReturnsNull ==
    (/\ cacheOutcome.call = "get"
     /\ db = "open"
     /\ cacheOutcome.key \notin DOMAIN store)
    => /\ ~cacheOutcome.threw
       /\ ~cacheOutcome.found
       /\ cacheOutcome.files = <<>>

C11_Witness ==
    /\ cacheOutcome.call = "get"
    /\ db = "open"
    /\ ~cacheOutcome.threw
    /\ ~cacheOutcome.found
    /\ cacheOutcome.key \notin DOMAIN store
    /\ store # <<>>

(* C12: a save that does not throw leaves exactly one record under its key,
   holding the list just saved, and leaves every other record as it was; when
   the key already held that list, get returns after the save what it
   returned before. *)
C12_SaveIsUpsert ==
    [][(cacheOutcome'.call = "save" /\ ~cacheOutcome'.threw /\ clock' # clock)
       => LET k == cacheOutcome'.key
          IN  /\ DOMAIN store' = DOMAIN store \cup {k}
              /\ \A j \in DOMAIN store \ {k} : store'[j] = store[j]
              /\ store'[k].key = k
              /\ store'[k].files = lastSaved'[k]
              /\ StoreGet(store', k) = [found |-> TRUE, files |-> lastSaved'[k]]
              /\ (k \in DOMAIN store /\ store[k].files = lastSaved'[k])
                 => StoreGet(store', k) = StoreGet(store, k)
      ]_vars

C12_Witness ==
    /\ cacheOutcome.call = "save"
    /\ cacheOutcome.replaced
    /\ cacheOutcome.key \in DOMAIN lastSaved
    /\ Len(store[cacheOutcome.key].files) = 2
    /\ store[cacheOutcome.key].files = lastSaved[cacheOutcome.key]
    /\ store[cacheOutcome.key].timestamp = 2
    /\ Cardinality(DOMAIN store) = 1

(* C13: get, save and clear, called while db is null, throw; they return
   nothing and leave the object store as it is. *)
C13_CallsBeforeInitThrow ==
    [][(db = "null" /\ db' = "null")
       => /\ cacheOutcome'.call \in {"get", "save", "clear"}
          /\ cacheOutcome'.threw
          /\ ~cacheOutcome'.found
          /\ cacheOutcome'.files = <<>>
          /\ store' = store
      ]_vars

C13_Witness ==
    /\ db = "null"
    /\ cacheOutcome.call = "clear"
    /\ cacheOutcome.threw
    /\ store # <<>>
    /\ clock = 1

(* C14: a step of the app (an upload, the restoration at start, clearArchive,
   anything but clear()) removes no record and changes no record but that of
   the fingerprint whose save it puts, so that records of several containers
   stay side by side; clear() on an open store removes every record. *)
C14_RecordsStayUntilClear ==
    [][IF UNCHANGED <<db, clock, appState>>
       THEN /\ db = "open" => store' = <<>>
            /\ db = "null" => store' = store
       ELSE /\ DOMAIN store \subseteq DOMAIN store'
            /\ \A k \in DOMAIN store :
                  store'[k] # store[k]
                  => \E p \in Procs : /\ proc[p].pc = "save"
                                      /\ proc'[p].pc = "saved"
                                      /\ k = Sha256Hex(proc[p].file.bytes)
      ]_vars

C14_Witness ==
    /\ Cardinality(DOMAIN store) = 2
    /\ reloads = 1
    /\ initPc = "done"
    /\ initKey # Null
    /\ files = <<>>
    /\ lastArchiveKey = Null
    /\ cacheOutcome.call = "none"

(* C15: a malformed record read from the store counts as a miss: an upload
   whose fingerprint has a malformed record unzips the uploaded container and
   completes, and the restoration at start that reads a malformed record
   restores nothing. *)
C15_MalformedRecordIsMiss ==
    /\ \A p \in Procs :
          (/\ proc[p].pc = "done"
           /\ proc[p].lookup # "none"
           /\ proc[p].file.bytes \notin Malformed
           /\ proc[p].failure # "save"
           /\ proc[p].cacheKey \in DOMAIN store
           /\ IsMalformedRecord(store[proc[p].cacheKey]))
          => /\ proc[p].failure = "none"
             /\ proc[p].unzipCalls = 1
    /\ (/\ initPc \in {"done", "restoreFailed"}
        /\ initKey \in DOMAIN store
        /\ IsMalformedRecord(store[initKey])
        /\ uploadSeq = 0)
       => /\ files = <<>>
          /\ directoryTree = <<>>

(* C16: no failure of an asynchronous operation ends as an unhandled
   rejection: the failures of init, get, save, generateKey and unzip are caught
   and logged, and so is a failure to read the bytes of a clicked entry. *)
C16_NoUnhandledRejection ==
    unhandled = {}

(* every node of a tree, parents before children *)
RECURSIVE AllNodes(_)
AllNodes(nodes) ==
    IF nodes = <<>> THEN <<>>
    ELSE <<Head(nodes)>> \o AllNodes(Head(nodes).children) \o AllNodes(Tail(nodes))

(* the path itself and what precedes each of its slashes *)
Prefixes(path) ==
    { SubSeq(path, 1, i - 1) : i \in { k \in 1..Len(path) : path[k] = "/" } }
    \cup {path}

(* directories before files, and each kind strictly ascending by name *)
LevelSorted(nodes) ==
    \A i, j \in 1..Len(nodes) :
        i < j => /\ nodes[i].isDirectory \/ ~nodes[j].isDirectory
                 /\ (nodes[i].isDirectory = nodes[j].isDirectory)
                    => localeCompare(nodes[i].name, nodes[j].name) < 0

(* this level and the levels below it: below directories only, or below
   every node *)
RECURSIVE SortedBelow(_, _)
SortedBelow(nodes, belowEveryNode) ==
    /\ LevelSorted(nodes)
    /\ \A i \in 1..Len(nodes) :
          (nodes[i].isDirectory \/ belowEveryNode)
          => SortedBelow(nodes[i].children, belowEveryNode)

(* C17, as the code has it: at the root and among the children of every
   directory node, directories precede files and each kind is strictly
   ascending by name. *)
C17_SortedBelowDirectories ==
    SortedBelow(directoryTree, FALSE)

(* C17, as stated: at every level of the tree, directories precede files and
   each kind is strictly ascending by name. *)
C17_SortedAtEveryLevel ==
    SortedBelow(directoryTree, TRUE)

C17_Witness ==
    /\ Len(files) = 3
    /\ files[1].path = <<"B">>
    /\ files[2].path = <<"d", "/", "b">>
    /\ files[3].path = <<"d", "/", "a">>
    /\ Len(directoryTree) = 2
    /\ directoryTree[1].isDirectory
    /\ Len(directoryTree[1].children) = 2
    /\ directoryTree[1].children[1].name = <<"a">>

(* C18: the tree has exactly one node per distinct path prefix of the
   entries, no directory node holds an entry, and no leaf has children. *)
C18_OneNodePerPrefix ==
    LET ns == AllNodes(directoryTree)
    IN  directoryTree # <<>>
        => /\ { ns[i].path : i \in 1..Len(ns) }
                = UNION { Prefixes(files[k].path) : k \in 1..Len(files) }
           /\ \A i, j \in 1..Len(ns) : i # j => ns[i].path # ns[j].path
           /\ \A i \in 1..Len(ns) :
                 /\ ns[i].isDirectory => ns[i].fileEntry = <<>>
                 /\ ~ns[i].isDirectory => ns[i].children = <<>>

(* C19: when the path of an entry is also a directory prefix of other
   entries, the build completes, and the tree is the function of the list in
   which that path has one node: a leaf holding the entry when the entry
   precedes every entry below it, and otherwise a directory holding none. *)
C19_LeafAndPrefixResolved ==
    LET ns == AllNodes(directoryTree)
    IN  directoryTree # <<>>
        => /\ directoryTree = buildDirectoryTree(files)
           /\ \A k \in 1..Len(files) :
                 LET q == files[k].path
                     below == { j \in 1..Len(files) :
                                  q \in Prefixes(files[j].path) \ {files[j].path} }
                     at == { i \in 1..Len(ns) : ns[i].path = q }
                 IN  below # {}
                     => /\ Cardinality(at) = 1
                        /\ \A i \in at :
                              IF \A j \in below : k < j
                              THEN /\ ~ns[i].isDirectory
                                   /\ ns[i].fileEntry = <<files[k]>>
                              ELSE /\ ns[i].isDirectory
                                   /\ ns[i].fileEntry = <<>>

C19_Witness ==
    /\ Len(files) = 3
    /\ files[1].path = <<"d", "/", "x", "/", "y">>
    /\ files[2].path = <<"d">>
    /\ files[3].path = <<"d", "/", "a">>
    /\ Len(directoryTree) = 1
    /\ directoryTree[1].isDirectory
    /\ Len(directoryTree[1].children) = 2

(* the paths of the leaves in tree order, of those leaves all of whose
   ancestors that are directories are expanded; the leaves looked for lie
   below directories only, or below every node *)
RECURSIVE LeavesWhere(_, _, _, _)
LeavesWhere(nodes, expanded, shown, belowEveryNode) ==
    IF nodes = <<>> THEN <<>>
    ELSE LET node == Head(nodes)
         IN  (IF node.isDirectory
              THEN LeavesWhere(node.children, expanded,
                               shown /\ node.path \in expanded, belowEveryNode)
              ELSE (IF shown THEN <<node.path>> ELSE <<>>)
                   \o (IF belowEveryNode
                       THEN LeavesWhere(node.children, expanded, shown, TRUE)
                       ELSE <<>>))
             \o LeavesWhere(Tail(nodes), expanded, shown, belowEveryNode)

VisiblePaths == [i \in 1..Len(VisibleFiles) |-> VisibleFiles[i].path]

(* C20, as the code has it: getVisibleFiles returns, in depth-first tree
   order, the leaves all of whose ancestors are directories in expandedDirs;
   the leaves of the root are always among them. *)
C20_VisibleBelowExpandedDirectories ==
    VisiblePaths = LeavesWhere(directoryTree, expandedDirs, TRUE, FALSE)

(* C20, as stated: getVisibleFiles returns, in depth-first tree order, the
   leaves all of whose ancestor directories are in expandedDirs. *)
C20_VisibleIffAncestorsExpanded ==
    VisiblePaths = LeavesWhere(directoryTree, expandedDirs, TRUE, TRUE)

C20_Witness ==
    /\ Len(files) = 3
    /\ <<"d">> \in expandedDirs
    /\ <<"d", "/", "x">> \notin expandedDirs
    /\ Len(directoryTree) = 2
    /\ Len(directoryTree[1].children) = 2
    /\ VisiblePaths = << <<"d", "/", "a">>, <<"a">> >>

(* the paths of the directory nodes of a tree *)
DirectoryPaths(nodes) ==
    LET ns == AllNodes(nodes)
    IN  { ns[i].path : i \in { k \in 1..Len(ns) : ns[k].isDirectory } }

(* a toggle of one directory changes the number of visible leaves in the
   direction of the toggle *)
VisibleCountMonotone ==
    directoryTree' = directoryTree
    => /\ expandedDirs' \subseteq expandedDirs
          => Len(getVisibleFiles(directoryTree', expandedDirs')) <= Len(VisibleFiles)
       /\ expandedDirs \subseteq expandedDirs'
          => Len(getVisibleFiles(directoryTree', expandedDirs')) >= Len(VisibleFiles)

(* every entry of the entry list is exactly once among the visible leaves *)
EveryEntryVisibleOnce ==
    /\ Len(VisiblePaths) = Len(files)
    /\ \A k \in 1..Len(files) :
          Cardinality({ i \in 1..Len(VisiblePaths) :
                          VisiblePaths[i] = files[k].path }) = 1

(* C21: on a fixed tree, collapsing a directory never increases the number of
   visible leaves and expanding one never decreases it; and when every
   directory is expanded, the visible leaves are the entries of the entry
   list, each exactly once. *)
C21_MonotoneAndComplete ==
    /\ [][VisibleCountMonotone]_vars
    /\ []((/\ directoryTree # <<>>
           /\ DirectoryPaths(directoryTree) \subseteq expandedDirs)
          => EveryEntryVisibleOnce)

(* C22: after every step (the clamp effect having run) focusedFileIndex is
   -1 or an index into the visible files; and when a step leaves fewer
   visible files than the index needs, the index becomes the last valid one,
   or -1 when no file is visible. *)
C22_FocusNeverDangles ==
    /\ [](focusedFileIndex = -1
          \/ focusedFileIndex \in 0..(Len(VisibleFiles) - 1))
    /\ [][LET n == Len(getVisibleFiles(directoryTree', expandedDirs'))
          IN  (n < Len(VisibleFiles) /\ focusedFileIndex >= n)
              => focusedFileIndex' = IF n > 0 THEN n - 1 ELSE -1]_vars

C22_Witness ==
    /\ Len(files) = 2
    /\ P_data \notin expandedDirs
    /\ Len(VisibleFiles) = 1
    /\ focusedFileIndex = 0
    /\ selectedFilePath = P_r
    /\ content = TextContent(files[1].entry.data)
    /\ currentView = "file"

(* the focus that a selection of path leaves: the position of path among
   the visible files, and the focus as it was when path is not among them *)
FocusOnSelected(path) ==
    LET fileIndex == FindIndexByPath(VisibleFiles, path)
    IN  IF fileIndex >= 0 THEN fileIndex ELSE focusedFileIndex

(* C23: when a selection is applied (the bytes of the entry having been
   read), selectedFilePath becomes the path of the entry and focusedFileIndex
   becomes the position of the entry in the visible files of that moment,
   and stays as it was if the entry is not visible then. *)
C23_SelectionFocusesCurrentPosition ==
    [][/\ \A r \in pendingReads :
             pendingReads' = pendingReads \ {r}
             => /\ selectedFilePath' = r.fileEntry.path
                /\ focusedFileIndex' = FocusOnSelected(r.fileEntry.path)
       /\ (/\ pendingReads' = pendingReads
           /\ currentView' = "file"
           /\ selectedFilePath' # selectedFilePath \/ currentView # "file")
          => focusedFileIndex' = FocusOnSelected(selectedFilePath')]_vars

(* C24: in every state directoryTree is buildDirectoryTree of files: a step
   that changes files (upload start, upload completion, restoration, clear)
   sets the tree built from the new list in the same step, and a step that
   leaves files alone leaves the tree alone. *)
C24_TreeRebuiltWithFiles ==
    /\ [](directoryTree = buildDirectoryTree(files))
    /\ [][/\ files' # files => directoryTree' = buildDirectoryTree(files')
          /\ files' = files => directoryTree' = directoryTree]_vars

C24_Witness ==
    /\ reloads = 1
    /\ initPc = "done"
    /\ \A p \in Procs : proc[p].pc = "idle"
    /\ Len(files) = 2
    /\ Len(directoryTree) = 2
    /\ directoryTree[1].isDirectory
    /\ Len(directoryTree[1].children) = 1

(* C25: for every text and every linesPerBlock >= 1, the blocks of
   splitTextIntoBlocks joined with the newline are the text again, also for
   the empty text, for a single line and for a line count that is a multiple
   of linesPerBlock. *)
C25_BlocksJoinToText ==
    helperCall.fn = "splitTextIntoBlocks"
    => JoinLines(helperCall.blocks) = helperCall.text

C25_Witness ==
    /\ helperCall.fn = "splitTextIntoBlocks"
    /\ helperCall.text = <<LetterX, LineFeed, LineFeed, LetterX, LineFeed>>
    /\ helperCall.linesPerBlock = 2
    /\ helperCall.blocks = << <<LetterX, LineFeed>>, <<LetterX, LineFeed>> >>

(* C26: splitTextIntoBlocks cuts the lines, in order, into
   ceil(lineCount / linesPerBlock) consecutive blocks: every block but the
   last has exactly linesPerBlock lines, the last has from 1 to
   linesPerBlock, and the empty text gives exactly one empty block. *)
C26_BlocksPartitionLines ==
    helperCall.fn = "splitTextIntoBlocks"
    => LET lines == SplitLines(helperCall.text)
           n == Len(lines)
           k == helperCall.linesPerBlock
           blocks == helperCall.blocks
       IN  /\ Len(blocks) = (n + k - 1) \div k
           /\ \A b \in 1..Len(blocks) :
                 /\ blocks[b] = JoinLines(SubSeq(lines, (b - 1) * k + 1, Min(b * k, n)))
                 /\ b < Len(blocks) => Len(SplitLines(blocks[b])) = k
                 /\ b = Len(blocks) => Len(SplitLines(blocks[b])) \in 1..k
           /\ helperCall.text = <<>> => blocks = << <<>> >>

C26_Witness ==
    /\ helperCall.fn = "splitTextIntoBlocks"
    /\ helperCall.text = <<LineFeed, LetterX, LineFeed, LineFeed, LetterX>>
    /\ helperCall.linesPerBlock = 3
    /\ helperCall.blocks = << <<LineFeed, LetterX, LineFeed>>, <<LetterX>> >>

(* a control byte outside the whitelist of isBinary *)
ControlOutsideWhitelist(byte) ==
    byte < 7 \/ (14 <= byte /\ byte <= 31)

(* C30: isBinary looks at the first min(length, 1000) bytes only and is true
   exactly when one of them is below 7 or from 14 to 31; tab, newline and
   carriage return never make a buffer binary, and 50 bytes of ASCII text
   followed by a zero byte are binary. *)
C30_IsBinaryByPrefix ==
    helperCall.fn = "isBinary"
    => LET data == helperCall.data
           len == IF Len(data) < 1000 THEN Len(data) ELSE 1000
       IN  /\ helperCall.result
              <=> \E i \in 1..len : ControlOutsideWhitelist(data[i])
           /\ (\A i \in 1..Len(data) : data[i] \in {9, 10, 13})
              => ~helperCall.result
           /\ (/\ Len(data) > 50
               /\ \A i \in 1..50 : data[i] \in 32..126
               /\ data[51] = 0)
              => helperCall.result

C30_Witness ==
    /\ helperCall.fn = "isBinary"
    /\ Len(helperCall.data) = 1001
    /\ helperCall.data[1001] = 0
    /\ ~helperCall.result

(* C27: the viewer uses linesPerBlock = 1 when the content has at most 50
   lines and 100 otherwise, so it has one render unit per line of a short
   content and ceil(lineCount / 100) of a long one. *)
C27_AdaptiveLinesPerBlock ==
    viewer.mounted
    => LET n == Len(SplitLines(viewer.content))
       IN  /\ viewer.linesPerBlock = IF n <= 50 THEN 1 ELSE 100
           /\ viewer.count = IF n <= 50 THEN n ELSE (n + 99) \div 100

C27_Witness ==
    /\ viewer.mounted
    /\ Len(SplitLines(viewer.content)) = 50
    /\ viewer.count = 50

(* C28: for a non-empty content and any scroll position, the materialized
   blocks are a non-empty contiguous range of block indices: from two before
   the first block that intersects [scrollTop, scrollTop + viewportHeight) to
   two after the last one, cut at the first and the last block, and no other
   block. *)
C28_MaterializedCoversViewport ==
    (viewer.mounted /\ viewer.content # <<>>)
    => LET height == viewer.linesPerBlock * 20
           seen == { i \in 0..(viewer.count - 1) :
                       /\ i * height < viewer.scrollTop + viewer.viewportHeight
                       /\ (i + 1) * height > viewer.scrollTop }
           items == getVirtualItems(viewer)
       IN  /\ items # {}
           /\ seen \subseteq items
           /\ \A i, j \in items : \A k \in i..j : k \in items
           /\ \A i \in 0..(viewer.count - 1) :
                 i \in items <=> \E j \in seen : i - j \in -2..2

C28_Witness ==
    /\ viewer.mounted
    /\ viewer.count = 50
    /\ viewer.viewportHeight = 90
    /\ viewer.scrollTop = 450
    /\ getVirtualItems(viewer) = 20..28

(* the sum of the line height times the line count of each block *)
RECURSIVE SumOfLineHeights(_)
SumOfLineHeights(blocks) ==
    IF blocks = <<>> THEN 0
    ELSE 20 * Len(SplitLines(Head(blocks))) + SumOfLineHeights(Tail(blocks))

(* C29: the total height given to the scroll container is the sum of the
   best-known heights of the blocks, an unmeasured block counting for 20
   times its own number of lines, a short last block included. *)
C29_TotalIsSumOfBlockHeights ==
    (viewer.mounted /\ viewer.content # <<>>)
    => getTotalSize(viewer)
         = SumOfLineHeights(splitTextIntoBlocks(viewer.content, viewer.linesPerBlock))

(* a step in which handleFileClick applies the selection of a binary entry:
   a pending read of such an entry ends, or an entry of the cache is shown at
   once *)
SelectsBinary(path) ==
    \/ \E r \in pendingReads :
          /\ pendingReads' = pendingReads \ {r}
          /\ reloads' = reloads
          /\ r.fileEntry.path = path
          /\ isBinary(r.fileEntry.entry.data)
    \/ /\ pendingReads' = pendingReads
       /\ files' = files
       /\ currentView' = "file"
       /\ selectedFilePath' = path
       /\ selectedFilePath # path \/ currentView # "file"
       /\ \E i \in 1..Len(files) :
             files[i].path = path /\ isBinary(files[i].entry.data)

(* C31, as the code has it: when the selected entry is classified binary its
   bytes are neither decoded nor partitioned; the content becomes the
   placeholder naming the path, and the viewer is rendered with that
   placeholder as its only content. *)
C31_BinaryShowsPlaceholder ==
    [][\A path \in {P_r, P_data_a, P_x_y} :
          SelectsBinary(path)
          => /\ content' = BinaryPlaceholder(path)
             /\ content'.text = <<>>
             /\ ViewerProps' = <<BinaryPlaceholder(path)>>]_vars

(* C31, as stated: when the selected entry is classified binary the viewer is
   not invoked at all. *)
C31_BinaryNeverReachesViewer ==
    [][\A path \in {P_r, P_data_a, P_x_y} :
          SelectsBinary(path) => ViewerProps' = <<>>]_vars

C31_Witness ==
    /\ currentView = "file"
    /\ selectedFilePath = P_data_a
    /\ content = BinaryPlaceholder(P_data_a)
    /\ \E i \in 1..Len(files) :
          files[i].path = P_data_a /\ isBinary(files[i].entry.data)

(* C32: when the component is rendered with a content other than the one it
   had, the scroll position is 0 afterwards and every block of the new
   content is laid out with the height estimated for the new content, none
   with a height the previous content's block of the same index had. *)
C32_ContentChangeResetsScrollAndHeights ==
    [][(viewer.mounted /\ viewer'.content # viewer.content)
       => /\ viewer'.scrollTop = 0
          /\ \A i \in 0..(viewer'.count - 1) :
                ItemSize(viewer', i) = linesPerBlock(viewer'.content) * LineHeight]_vars

(* a content of 150 lines is shown at the top, laid out as two blocks of
   2000 *)
C32_Witness ==
    /\ viewer.mounted
    /\ Len(SplitLines(viewer.content)) = 150
    /\ viewer.scrollTop = 0
    /\ viewer.sizes = <<2000, 2000>>
    /\ viewer.viewportHeight = 90

(* C33: whenever the last-active key is set, the store holds a record under
   it; an upload has written the key only after a hit or after its put, never
   after a failed save; and the step in which a save fails does not write the
   key. *)
C33_KeyHasRecord ==
    /\ [](/\ lastArchiveKey # Null => lastArchiveKey \in DOMAIN store
          /\ \A p \in Procs :
                /\ proc[p].setKey
                     => /\ proc[p].cacheKey \in DOMAIN store
                        /\ proc[p].lookup = "hit" \/ proc[p].puts = 1
                        /\ proc[p].failure # "save"
                /\ proc[p].failure = "save" => ~proc[p].setKey)
    /\ [][\A p \in Procs :
            (proc[p].failure # "save" /\ proc'[p].failure = "save")
            => lastArchiveKey' = lastArchiveKey]_vars

(* one upload's save has failed and another's has succeeded and set the key *)
C33_Witness ==
    \E p, q \in Procs :
        /\ proc[p].failure = "save"
        /\ proc[q].setKey /\ proc[q].lookup = "miss"
        /\ lastArchiveKey = proc[q].cacheKey
        /\ lastArchiveKey \in DOMAIN store

(* an upload has begun since the page was loaded *)
UploadBegun == \E p \in Procs : proc[p].pc # "idle"

(* C34: when the lookup of the restoration at start returns after an upload
   has begun (clearArchive can only follow such an upload, the entry list
   being empty until then), the step installs nothing: the entry list and
   the tree stay as they are. *)
C34_LateRestorationInstallsNothing ==
    [][(initPc = "get" /\ initPc' # "get" /\ reloads' = reloads /\ UploadBegun)
       => (files' = files /\ directoryTree' = directoryTree)]_vars

(* C35: whenever a file is shown (the view is file and a path is selected),
   the selected path is that of an entry of the current entry list and the
   content is what handleFileClick makes of the bytes of that entry; so a
   read that ends after an upload or a clear has begun installs nothing. *)
C35_ShownFileIsCurrentEntry ==
    (currentView = "file" /\ selectedFilePath # EmptyString)
    => \E i \in 1..Len(files) :
          /\ files[i].path = selectedFilePath
          /\ content = IF isBinary(files[i].entry.data)
                       THEN BinaryPlaceholder(files[i].path)
                       ELSE TextContent(files[i].entry.data)

(* C36: the loading flag is true exactly while some invocation of processFile
   is in flight: true from the start of an upload, false once every upload
   has completed, and never false while one is still running. *)
C36_LoadingWhileInFlight ==
    isLoading <=> \E p \in Procs : InFlight(p)

(* some entry before position k has the path, as its own or as a prefix *)
SeenBefore(path, k) == \E j \in 1..(k - 1) : path \in Prefixes(files[j].path)

(* the first entry that has the path, as its own or as a prefix, has it as
   its own *)
FirstSeenAsLeaf(path) ==
    \E j \in 1..Len(files) : files[j].path = path /\ ~SeenBefore(path, j)

(* C37: the path of every entry has one node, with the role of the first
   occurrence of the path in the entry list: a leaf holding the first entry
   of that path when no earlier entry lies below it, a directory holding no
   entry otherwise; an entry whose path was seen before it is in no node; and
   an entry below a path first seen as a leaf is a visible file under no
   set of expanded directories. *)
C37_FirstOccurrenceWins ==
    LET ns == AllNodes(directoryTree)
        dirs == UNION { Prefixes(files[j].path) : j \in 1..Len(files) }
    IN  directoryTree # <<>>
        => \A k \in 1..Len(files) :
              LET q == files[k].path
                  at == { i \in 1..Len(ns) : ns[i].path = q }
                  holders == { i \in 1..Len(ns) : ns[i].fileEntry = <<files[k]>> }
              IN  /\ Cardinality(at) = 1
                  /\ \A i \in at : ns[i].isDirectory <=> ~FirstSeenAsLeaf(q)
                  /\ holders = IF SeenBefore(q, k) THEN {} ELSE at
                  /\ (\E above \in Prefixes(q) \ {q} : FirstSeenAsLeaf(above))
                     => \A expanded \in SUBSET dirs :
                           LET visible == getVisibleFiles(directoryTree, expanded)
                           IN  \A v \in 1..Len(visible) : visible[v] # files[k]

(* d, then d/b, then d again: one leaf d holding the first entry, with the
   node of d/b below it, and only the first entry visible *)
C37_Witness ==
    /\ Len(files) = 3
    /\ files[1].path = <<"d">>
    /\ files[2].path = <<"d", "/", "b">>
    /\ files[3].path = <<"d">>
    /\ Len(directoryTree) = 1
    /\ ~directoryTree[1].isDirectory
    /\ directoryTree[1].fileEntry = <<files[1]>>
    /\ Len(directoryTree[1].children) = 1
    /\ VisibleFiles = <<files[1]>>

(* C38: with a visible file, ArrowDown and ArrowUp set a focus of -1 to 0,
   ArrowDown otherwise adds 1 unless the focus is the last index and ArrowUp
   subtracts 1 unless it is 0; Enter calls handleFileClick on the visible file
   at the focused index, which is shown at once or whose read begins; and
   with no visible file no key does anything. *)
C38_KeyboardNavigation ==
    /\ [](Len(VisibleFiles) = 0 => ~ENABLED (ArrowDown \/ ArrowUp \/ EnterKey))
    /\ [][/\ ArrowDown
             => /\ Len(VisibleFiles) > 0
                /\ focusedFileIndex' =
                      IF focusedFileIndex = -1 THEN 0
                      ELSE IF focusedFileIndex = Len(VisibleFiles) - 1
                      THEN focusedFileIndex
                      ELSE focusedFileIndex + 1
          /\ ArrowUp
             => /\ Len(VisibleFiles) > 0
                /\ focusedFileIndex' =
                      IF focusedFileIndex = -1 \/ focusedFileIndex = 0 THEN 0
                      ELSE focusedFileIndex - 1
          /\ EnterKey
             => /\ focusedFileIndex \in 0..(Len(VisibleFiles) - 1)
                /\ LET fileEntry == VisibleFiles[focusedFileIndex + 1]
                   IN  \/ /\ pendingReads' = pendingReads \cup
                                   {[fileEntry |-> fileEntry,
                                     visibleFiles |-> VisibleFiles]}
                          /\ UNCHANGED <<reactView, focusedFileIndex>>
                       \/ /\ pendingReads' = pendingReads
                          /\ selectedFilePath' = fileEntry.path
                          /\ currentView' = "file"
                          /\ content' = IF isBinary(fileEntry.entry.data)
                                        THEN BinaryPlaceholder(fileEntry.path)
                                        ELSE TextContent(fileEntry.entry.data)]_vars

(* the second of two visible files is focused and its read has begun, with
   nothing selected yet *)
C38_Witness ==
    /\ Len(VisibleFiles) = 2
    /\ focusedFileIndex = 1
    /\ selectedFilePath = EmptyString
    /\ \E r \in pendingReads : r.fileEntry = VisibleFiles[2]

(* C39: within one page load init is called once, by the first invocation of
   the mount effect (a later invocation finds hasInitialized set and does
   nothing), the lookup of the restoration is issued at most once, and the
   last-active key is read in the step in which init completes, not before. *)
C39_InitializesOnce ==
    /\ [](hasInitialized => ~ENABLED Mount)
    /\ [][reloads' = reloads
          => /\ hasInitialized => hasInitialized'
             /\ (initPc # "init" /\ initPc' = "init")
                => (~hasInitialized /\ initPc = "unmounted")
             /\ (initPc # "get" /\ initPc' = "get")
                => (initPc = "init" /\ db = "null" /\ db' = "open")
             /\ initKey' # initKey
                => (initPc = "init" /\ db' = "open" /\ initKey' = lastArchiveKey)
             /\ initPc # "unmounted" => initPc' # "unmounted"
             /\ initPc \in {"done", "failed", "restoreFailed"} => initPc' = initPc]_vars

(* after a reload the archive remembered has been restored *)
C39_Witness ==
    /\ reloads = 1
    /\ hasInitialized
    /\ initPc = "done"
    /\ initKey # Null
    /\ db = "open"
    /\ Len(files) > 0
    /\ \A p \in Procs : proc[p].pc = "idle"

====
